---- MODULE Spec2Model ----
(***************************************************************************)
(* Multi-agent documentation pipeline of the Documentation-Viewer-Portal   *)
(* backend (services/multi_agent_documentation_service.py):                 *)
(* DocumentationAgent (quality loop), OrchestratorAgent (fan-out, cross    *)
(* references, assembly, simulation) and MultiAgentService.                 *)
(*                                                                         *)
(* Text.  A Python string is modelled as a sequence of lines.  A line is   *)
(* [ind, toks]: ind leading blanks and a sequence of runs.  A run          *)
(* [t, n, d] stands for n whitespace-separated words of Len(t) characters  *)
(* each, d of them distinct: the words <<t,1>> .. <<t,d>>.  A single word  *)
(* or markdown marker ("#", "-", "1.") is a run with n = d = 1.     *)
(***************************************************************************)
EXTENDS Integers, Sequences, FiniteSets, TLC

\* ------------------------------------------------------------------ text

Run(t, n, d) == [t |-> t, n |-> n, d |-> d]
W(t) == Run(t, 1, 1)
Ln(ind, toks) == [ind |-> ind, toks |-> toks]
Blank == Ln(0, <<>>)
EmptyText == <<>>

RECURSIVE SumRange(_, _, _)
SumRange(s, lo, hi) ==
    IF lo > hi THEN 0
    ELSE IF lo = hi THEN s[lo]
    ELSE SumRange(s, lo, (lo + hi) \div 2)
           + SumRange(s, (lo + hi) \div 2 + 1, hi)

SumSeq(s) == SumRange(s, 1, Len(s))

Max2(a, b) == IF a >= b THEN a ELSE b
Min2(a, b) == IF a <= b THEN a ELSE b

IsBlank(line) == line.toks = <<>>

\* str.strip(): leading and trailing white space goes, so do leading and
\* trailing blank lines and the indentation of the first line left.
RECURSIVE DropLeadingBlank(_)
DropLeadingBlank(txt) ==
    IF txt = <<>> THEN <<>>
    ELSE IF IsBlank(Head(txt)) THEN DropLeadingBlank(Tail(txt)) ELSE txt

RECURSIVE DropTrailingBlank(_)
DropTrailingBlank(txt) ==
    IF txt = <<>> THEN <<>>
    ELSE IF IsBlank(txt[Len(txt)])
         THEN DropTrailingBlank(SubSeq(txt, 1, Len(txt) - 1)) ELSE txt

Strip(txt) ==
    LET core == DropTrailingBlank(DropLeadingBlank(txt))
    IN  IF core = <<>> THEN <<>>
        ELSE <<Ln(0, core[1].toks)>> \o Tail(core)

\* len(text.split()): the number of whitespace-separated words.
LineWords(line) == SumSeq([i \in 1..Len(line.toks) |-> line.toks[i].n])
WordCount(txt) == SumSeq([i \in 1..Len(txt) |-> LineWords(txt[i])])

\* len(text): words, the single blanks between them, indentation, newlines.
LineChars(line) ==
    line.ind + SumSeq([i \in 1..Len(line.toks) |->
                          line.toks[i].n * Len(line.toks[i].t)])
             + (IF LineWords(line) > 0 THEN LineWords(line) - 1 ELSE 0)
CharLen(txt) ==
    SumSeq([i \in 1..Len(txt) |-> LineChars(txt[i])])
      + (IF Len(txt) > 0 THEN Len(txt) - 1 ELSE 0)

\* The number of '#' a word starts with (0: it does not start with '#').
HashRun(t) ==
    CASE t = "#" -> 1 [] t = "##" -> 2 [] t = "###" -> 3 [] t = "####" -> 4
      [] t = "#####" -> 5 [] t = "######" -> 6 [] OTHER -> 0

FirstTok(line) == IF IsBlank(line) THEN "" ELSE line.toks[1].t

\* text.count("\n" + k * "#"): the lines after the first that start, at
\* column 0, with at least k '#'.
CountNewlineHashes(txt, k) ==
    Cardinality({i \in 2..Len(txt) :
                    txt[i].ind = 0 /\ HashRun(FirstTok(txt[i])) >= k})

\* Words holding "1." .. "4." (range(1, 5)), list markers or not.
NumDotWords == {"1.", "2.", "3.", "4.", "v1.2"}
\* Words ending in '-' or '*': with a blank after them they hold "- ", "* ".
DashEndWords == {"-"}
StarEndWords == {"*"}

\* Words holding a code fence (three backquotes, written "~~~" here).
FenceWords == {"~~~", "~~~python", "~~~js"}

\* sub in text, for the substring that a word of ends and a blank make.
HasWordThenBlank(txt, ends) ==
    \E i \in 1..Len(txt) : \E j \in 1..Len(txt[i].toks) :
        /\ txt[i].toks[j].t \in ends
        /\ (j < Len(txt[i].toks) \/ txt[i].toks[j].n > 1)

\* sub in text, for a substring that lies inside a word of holders.
HasWord(txt, holders) ==
    \E i \in 1..Len(txt) : \E j \in 1..Len(txt[i].toks) :
        txt[i].toks[j].t \in holders

\* text.split('\n') with one more text inserted before index idx
\* (list.insert) and joined again.
InsertLines(txt, idx, ins) ==
    SubSeq(txt, 1, Min2(idx, Len(txt))) \o ins
      \o SubSeq(txt, Min2(idx, Len(txt)) + 1, Len(txt))

\* ----------------------------------------------------- project snapshot

\* A processed file: name = stem.ext, its size, whether its text mentions
\* "react", and the images found in it.  An image: name, the agent keywords
\* found in its context and name, its base64 payload, the section and the
\* description of its placement.
File(stem, ext, size, react, images) ==
    [stem |-> stem, ext |-> ext, size |-> size, react |-> react,
     images |-> images]
Image(name, kws, data, section, desc) ==
    [name |-> name, kws |-> kws, data |-> data, section |-> section,
     desc |-> desc]

AppPy == File("app", "py", 120, FALSE, <<>>)
GuideMd ==
    File("guide", "md", 900, FALSE,
         <<Image("docx_flow.png", {"api", "interface"}, "iVBORw0KGgo",
                 "api", "Auto-placed")>>)

\* A document with three embedded images; the words of the third one only
\* are about interfaces.
AlbumMd ==
    File("album", "md", 700, FALSE,
         <<Image("latency_chart.png", {"performance", "latency", "metric"},
                 "R0lGODlhAQAB", "performance", "Auto-placed"),
           Image("test_report.png", {"test", "coverage"}, "Qk02AwAAAAAA",
                 "testing", "Auto-placed"),
           Image("api_flow.png", {"api", "endpoint"}, "UklGRiIAAABX",
                 "api", "Auto-placed")>>)

Snapshot(title, files) ==
    [title |-> title, description |-> "D", files |-> files]

\* The snapshots a run is given: no file, one source file, a source file
\* and a document with an embedded image, a source file and a document
\* with three.
Snapshots ==
    {Snapshot("Portal", <<>>), Snapshot("Portal", <<AppPy>>),
     Snapshot("Portal", <<AppPy, GuideMd>>),
     Snapshot("Portal", <<AppPy, AlbumMd>>)}

NumStr(k) ==
    CASE k = 0 -> "0" [] k = 1 -> "1" [] k = 2 -> "2" [] k = 3 -> "3"
      [] k = 4 -> "4" [] k = 5 -> "5" [] OTHER -> "many"

\* ------------------------------------------------- DocumentationAgent

MinQualityWords == 700
MinQualityHeadings == 3

\* heading_count of _passes_quality: four substring counts added up.
HeadingCount(txt) ==
    CountNewlineHashes(txt, 1) + CountNewlineHashes(txt, 2)
      + CountNewlineHashes(txt, 3) + CountNewlineHashes(txt, 4)

HasLists(txt) ==
    \/ HasWordThenBlank(txt, DashEndWords)
    \/ HasWordThenBlank(txt, StarEndWords)
    \/ HasWord(txt, NumDotWords)

PassesQuality(txt) ==
    IF Strip(txt) = <<>> THEN FALSE
    ELSE /\ WordCount(Strip(txt)) >= MinQualityWords
         /\ HeadingCount(txt) >= MinQualityHeadings
         /\ HasLists(txt)

\* The roster of _initialize_agents, in the order of agent_configs.
AgentNames ==
    <<"Code Architecture Agent", "System Architecture Agent",
      "API Integration Agent", "Security Implementation Agent",
      "Deployment Operations Agent", "Quality Assurance Agent",
      "User Documentation Agent", "Performance Optimization Agent">>

AllAgents == {AgentNames[i] : i \in 1..Len(AgentNames)}

\* The words of an agent's name.
NameWords(a) ==
    CASE a = "Code Architecture Agent" -> <<W("Code"), W("Architecture"), W("Agent")>>
      [] a = "System Architecture Agent" -> <<W("System"), W("Architecture"), W("Agent")>>
      [] a = "API Integration Agent" -> <<W("API"), W("Integration"), W("Agent")>>
      [] a = "Security Implementation Agent" -> <<W("Security"), W("Implementation"), W("Agent")>>
      [] a = "Deployment Operations Agent" -> <<W("Deployment"), W("Operations"), W("Agent")>>
      [] a = "Quality Assurance Agent" -> <<W("Quality"), W("Assurance"), W("Agent")>>
      [] a = "User Documentation Agent" -> <<W("User"), W("Documentation"), W("Agent")>>
      [] a = "Performance Optimization Agent" -> <<W("Performance"), W("Optimization"), W("Agent")>>
      [] a = "Glossary Agent" -> <<W("Glossary"), W("Agent")>>
      [] a = "Overview Agent" -> <<W("Overview"), W("Agent")>>

\* self.role.lower(): the words of the agent's role, peculiar to the agent.
RoleRun(a) ==
    CASE a = "Code Architecture Agent" -> Run("role-code", 6, 6)
      [] a = "System Architecture Agent" -> Run("role-system", 7, 7)
      [] a = "API Integration Agent" -> Run("role-api", 6, 6)
      [] a = "Security Implementation Agent" -> Run("role-security", 6, 6)
      [] a = "Deployment Operations Agent" -> Run("role-devops", 6, 6)
      [] a = "Quality Assurance Agent" -> Run("role-quality", 7, 7)
      [] a = "User Documentation Agent" -> Run("role-writer", 7, 7)
      [] a = "Performance Optimization Agent" -> Run("role-perf", 7, 7)

\* _get_file_category
FileCategory(f) ==
    IF f.ext = "" THEN "Configuration"
    ELSE IF f.ext \in {"py", "js", "jsx", "ts", "tsx", "java", "cpp", "c",
                       "cs", "php", "rb", "go", "rs", "swift", "kt", "scala"}
         THEN "Source Code"
    ELSE IF f.ext \in {"html", "css", "scss", "sass", "less"}
         THEN "Frontend Assets"
    ELSE IF f.ext \in {"json", "yaml", "yml", "toml", "ini", "cfg", "conf"}
            \/ f.stem \in {"config", "app.config"}
         THEN "Configuration"
    ELSE IF f.ext \in {"md", "txt", "rst"} THEN "Documentation"
    ELSE IF f.ext \in {"sql", "db", "sqlite"} THEN "Database"
    ELSE IF f.stem \in {"test", "test_app"} \/ f.ext \in {"spec", "test"}
         THEN "Tests"
    ELSE "Other"

\* The keys of file_types, in the order the dict got them.
RECURSIVE CategoriesInOrder(_, _)
CategoriesInOrder(files, seen) ==
    IF files = <<>> THEN <<>>
    ELSE LET c == FileCategory(Head(files))
         IN  IF c \in seen THEN CategoriesInOrder(Tail(files), seen)
             ELSE <<c>> \o CategoriesInOrder(Tail(files), seen \cup {c})

FilesOfCategory(files, c) ==
    SelectSeq(files, LAMBDA f : FileCategory(f) = c)

\* _detect_project_type
DetectProjectType(p) ==
    LET has(test(_)) == \E i \in 1..Len(p.files) : test(p.files[i])
        react(f) == f.ext = "jsx" \/ f.stem = "jsx" \/ f.react
        python(f) == f.ext = "py"
        node(f) == f.stem = "package" /\ f.ext = "json"
        java(f) == f.ext = "java"
    IN  IF has(react) /\ has(node) THEN Run("React Web Application", 3, 3)
        ELSE IF has(python) THEN Run("Python Application", 2, 2)
        ELSE IF has(java) THEN Run("Java Application", 2, 2)
        ELSE IF has(node) THEN Run("Node.js Application", 2, 2)
        ELSE Run("Multi-language Project", 2, 2)

\* _assess_complexity
AssessComplexity(file_count) ==
    IF file_count > 50 THEN Run("High complexity (Large-scale project)", 4, 4)
    ELSE IF file_count > 20 THEN Run("Medium complexity (Mid-scale project)", 4, 4)
    ELSE IF file_count > 5 THEN Run("Low complexity (Small-scale project)", 4, 4)
    ELSE Run("Minimal complexity (Simple project)", 4, 4)

\* The words of the agent's own paragraph of _simulate_content.
DomainKey(a) ==
    CASE a = "Code Architecture Agent" -> "code-structure"
      [] a = "System Architecture Agent" -> "system-architecture"
      [] a = "API Integration Agent" -> "api-structure"
      [] a = "Security Implementation Agent" -> "security-measures"
      [] a = "Deployment Operations Agent" -> "installation"
      [] a = "Quality Assurance Agent" -> "testing-strategy"
      [] a = "User Documentation Agent" -> "user-experience"
      [] a = "Performance Optimization Agent" -> "performance-analysis"

\* The marker and the number of items of the paragraph's second list.
DomainSecondList(a) ==
    CASE a \in {"Code Architecture Agent", "System Architecture Agent",
                "API Integration Agent", "Quality Assurance Agent",
                "User Documentation Agent"} -> <<"-", "-", "-">>
      [] a = "Deployment Operations Agent" -> <<"1.", "2.", "3.", "4.">>
      [] OTHER -> <<"-", "-", "-", "-">>

\* The agent's own paragraph: a heading, four "- **Key**: text" items, a
\* second heading and its list.  ind0 is the column of its first line: the
\* text before it ends in four blanks unless a file list came between.
DomainLines(a, ind0) ==
    LET k == DomainKey(a)
        second == DomainSecondList(a)
    IN  <<Ln(ind0, <<W("##"), Run(k \o "/title", 3, 1)>>)>>
          \o [i \in 1..4 |->
                Ln(4, <<W("-"), Run(k \o "/key" \o NumStr(i), 7, 5)>>)]
          \o <<Blank, Ln(4, <<W("##"), Run(k \o "/title2", 2, 1)>>)>>
          \o [i \in 1..Len(second) |->
                Ln(4, <<W(second[i]), Run(k \o "/item" \o NumStr(i), 5, 3)>>)]
          \o <<Blank>>

\* "### {file_type} Files (n)" and up to five "- name" lines per category
\* (the name stands in code quotes, which the model leaves out).
FileNameLine(f) == Ln(0, <<W("-"), W(f.stem \o "." \o f.ext)>>)

RECURSIVE FileTypeLines(_, _, _)
FileTypeLines(cats, files, ind0) ==
    IF cats = <<>> THEN <<>>
    ELSE LET mine == FilesOfCategory(files, Head(cats))
             shown == SubSeq(mine, 1, Min2(5, Len(mine)))
         IN  <<Ln(ind0, <<W("###"), Run(Head(cats), 2, 2), W("Files"),
                           W("(" \o NumStr(Len(mine)) \o ")")>>)>>
               \o [i \in 1..Len(shown) |-> FileNameLine(shown[i])]
               \o (IF Len(mine) > 5
                   THEN <<Ln(0, <<W("-"), W("..."), W("and"),
                                  W(NumStr(Len(mine) - 5)), W("more"),
                                  W("files")>>)>>
                   ELSE <<>>)
               \o <<Blank>>
               \o FileTypeLines(Tail(cats), files, 0)

\* _simulate_content: the template built from the file statistics alone.
SimulateContent(a, p) ==
    LET fc == Len(p.files)
        cats == CategoriesInOrder(p.files, {})
    IN  <<Ln(0, <<W("#")>> \o NameWords(a) \o <<W("Analysis")>>),
          Blank,
          Ln(4, <<W("##"), W("Overview")>>),
          Ln(4, <<Run("tpl-provides", 5, 5), RoleRun(a), W("analysis"),
                  W("for"), W("**" \o p.title \o "**.")>>),
          Blank,
          Ln(4, <<W("##"), W("Project"), W("Structure"), W("Analysis")>>),
          Ln(4, <<Run("tpl-contains", 3, 2), W("**" \o NumStr(fc)),
                  W("files**"), Run("tpl-across", 4, 3)>>),
          Blank>>
        \o FileTypeLines(cats, p.files, 4)
        \o DomainLines(a, IF cats = <<>> THEN 4 ELSE 0)
        \o <<Ln(4, <<W("##"), W("Technical"), W("Specifications")>>),
             Ln(4, <<W("-"), W("**Total"), W("Files**:"), W(NumStr(fc)),
                     W("files"), W("analyzed")>>),
             Ln(4, <<W("-"), W("**Project"), W("Type**:"),
                     DetectProjectType(p)>>),
             Ln(4, <<W("-"), W("**Complexity**:"), AssessComplexity(fc)>>),
             Blank,
             Ln(4, <<W("##"), W("Recommendations")>>),
             Ln(4, <<W("1."), Run("tpl-recommend1", 6, 3)>>),
             Ln(4, <<W("2."), Run("tpl-recommend2", 5, 3)>>),
             Ln(4, <<W("3."), Run("tpl-recommend3", 6, 3)>>),
             Ln(4, <<W("4."), Run("tpl-recommend4", 6, 5)>>),
             Blank,
             Ln(4, <<W("##"), W("Integration"), W("Notes")>>),
             Ln(4, <<Run("tpl-integrates", 32, 18)>>),
             Blank,
             Ln(4, <<W("---")>>),
             Ln(4, <<Run("tpl-generated", 22, 13)>>),
             Blank>>

\* agent_keywords of _add_images_to_content
AgentKeywords(a) ==
    CASE a = "Code Architecture Agent" -> {"code", "function", "class", "module", "file"}
      [] a = "System Architecture Agent" -> {"architecture", "design", "system", "topology"}
      [] a = "API Integration Agent" -> {"api", "endpoint", "request", "response", "interface"}
      [] a = "Security Implementation Agent" -> {"security", "auth", "token", "password", "jwt", "mfa"}
      [] a = "Deployment Operations Agent" -> {"setup", "installation", "deploy", "infrastructure", "docker", "kubernetes"}
      [] a = "Quality Assurance Agent" -> {"test", "testing", "coverage", "qa", "assert"}
      [] a = "User Documentation Agent" -> {"ui", "user", "interface", "walkthrough", "guide"}
      [] a = "Performance Optimization Agent" -> {"performance", "latency", "throughput", "metric", "profiling"}
      [] OTHER -> {}

\* _extract_embedded_images: the images of all files, in file order.
RECURSIVE ExtractEmbeddedImages(_)
ExtractEmbeddedImages(files) ==
    IF files = <<>> THEN <<>>
    ELSE Head(files).images \o ExtractEmbeddedImages(Tail(files))

\* The word that carries an image's base64 payload.
PayloadWord(img) == "image](data:image/png;base64," \o img.data \o ")"
ImageMarkdown(img) ==
    <<Ln(0, <<W("![" \o img.desc), W(PayloadWord(img))>>), Blank>>

RECURSIVE ImageLines(_)
ImageLines(imgs) ==
    IF imgs = <<>> THEN <<>>
    ELSE ImageMarkdown(Head(imgs)) \o ImageLines(Tail(imgs))

\* The index after the first line that starts with "##" (1 if none does).
InsertIndex(txt) ==
    LET hits == {i \in 1..Len(txt) :
                    txt[i].ind = 0 /\ HashRun(FirstTok(txt[i])) >= 2}
    IN  IF hits = {} THEN 1
        ELSE CHOOSE i \in hits : \A j \in hits : i <= j

\* _add_images_to_content
AddImagesToContent(a, content, p) ==
    LET embedded == ExtractEmbeddedImages(p.files)
        keywords == AgentKeywords(a)
        firstTwo == SubSeq(embedded, 1, Min2(2, Len(embedded)))
        relevant == SelectSeq(firstTwo,
                       LAMBDA img : keywords = {} \/ img.kws \cap keywords # {})
        image_section ==
            <<Blank, Blank, Ln(0, <<W("##"), W("Visual"), W("Documentation")>>),
              Blank>> \o ImageLines(relevant) \o <<Blank>>
    IN  IF embedded = <<>> \/ relevant = <<>> THEN content
        ELSE InsertLines(content, InsertIndex(content), image_section)

\* The fallback text, were it left empty.
DraftIncompleteEmpty == EmptyText

DraftIncomplete ==
    <<Ln(0, <<W("#"), W("Draft"), W("Incomplete")>>), Blank,
      Ln(0, <<W("No"), W("content.")>>)>>

\* _build_context: project basics, the files by category (ten a category,
\* each with a preview of its text) and the other agents' insights.
FileContextLine(f) ==
    Ln(2, <<W("-"), W("**" \o f.stem \o "." \o f.ext \o "**"),
            W("(" \o NumStr(f.size)), W("bytes)"),
            W("preview-of-" \o f.stem \o "...")>>)

RECURSIVE CategoryContextLines(_, _)
CategoryContextLines(cats, files) ==
    IF cats = <<>> THEN <<>>
    ELSE LET mine == FilesOfCategory(files, Head(cats))
             shown == SubSeq(mine, 1, Min2(10, Len(mine)))
         IN  <<Blank, Ln(0, <<Run("*" \o Head(cats) \o ":*", 1, 1)>>)>>
               \o [i \in 1..Len(shown) |-> FileContextLine(shown[i])]
               \o CategoryContextLines(Tail(cats), files)

\* shared is a sequence of [name, insights]; insights[:150] is a preview.
SharedInsightLines(a, shared) ==
    LET others == SelectSeq(shared,
                     LAMBDA e : e.insights # EmptyText /\ e.name # a)
    IN  IF shared = <<>> THEN <<>>
        ELSE <<Blank, Ln(0, <<W("**Shared"), W("Insights:**")>>)>>
               \o [i \in 1..Len(others) |->
                     Ln(2, <<W("-"), W("*" \o others[i].name \o "*:"),
                             W("insights-of-" \o others[i].name \o "...")>>)]

BuildContext(a, p, shared) ==
    <<Ln(0, <<W("**Project**:"), W(p.title)>>),
      Ln(0, <<W("**Description**:"), W(p.description)>>)>>
      \o (IF p.files = <<>> THEN <<>>
          ELSE <<Blank,
                 Ln(0, <<W("**Files"), W("Analyzed**"),
                         W("(" \o NumStr(Len(p.files))), W("files):")>>)>>
                 \o CategoryContextLines(CategoriesInOrder(p.files, {}),
                                         p.files))
      \o SharedInsightLines(a, shared)

\* _process_embedded_images: the sections of the images' placements, in the
\* order the dict got them.
RECURSIVE SectionsInOrder(_, _)
SectionsInOrder(imgs, seen) ==
    IF imgs = <<>> THEN <<>>
    ELSE IF Head(imgs).section \in seen
         THEN SectionsInOrder(Tail(imgs), seen)
         ELSE <<Head(imgs).section>>
                \o SectionsInOrder(Tail(imgs), seen \cup {Head(imgs).section})

RECURSIVE ImageHintLines(_, _)
ImageHintLines(sections, imgs) ==
    IF sections = <<>> THEN <<>>
    ELSE LET mine == SelectSeq(imgs, LAMBDA g : g.section = Head(sections))
             shown == SubSeq(mine, 1, Min2(2, Len(mine)))
         IN  <<Blank, Ln(0, <<W("Section"), W("hint:"), W(Head(sections))>>)>>
               \o [i \in 1..Len(shown) |->
                     Ln(0, <<W("-"), W(shown[i].name), W("-"),
                             W(shown[i].desc)>>)]
               \o ImageHintLines(Tail(sections), imgs)

\* _create_user_prompt: the context, the task and, for the images, their
\* names and placement descriptions.
CreateUserPrompt(a, p, context) ==
    LET imgs == ExtractEmbeddedImages(p.files)
        base_prompt ==
            context \o <<Blank,
                         Ln(4, <<W("**TASK**:"), W("As"), W("a"), RoleRun(a),
                                 Run("prompt-task", 16, 16)>>),
                         Blank,
                         Ln(4, <<W("**REQUIREMENTS**:")>>),
                         Ln(4, <<W("-"), Run("prompt-requirements", 52, 45)>>),
                         Blank,
                         Ln(4, <<Run("prompt-focus", 17, 16)>>)>>
    IN  IF imgs = <<>> THEN base_prompt
        ELSE base_prompt
               \o <<Blank, Blank,
                    Ln(0, <<Run("prompt-visual-assets", 6, 6)>>)>>
               \o ImageHintLines(SectionsInOrder(imgs, {}), imgs)
               \o <<Blank, Ln(0, <<Run("prompt-no-render", 17, 16)>>), Blank>>

SystemPrompt(a) == <<Ln(0, <<Run("system-prompt-of-" \o a, 200, 120)>>)>>

Message(role, content) == [role |-> role, content |-> content]

RepairMinWords == 800
RepairMinHeadings == 5

\* The critique, were it to leave the lists to the strict rules.
CritiqueWithoutLists(draft) ==
    IF draft = EmptyText THEN <<"The previous reply was empty.">>
    ELSE (IF WordCount(draft) < RepairMinWords
          THEN <<"Too short (must be 800-1500 words).">> ELSE <<>>)
      \o (IF HeadingCount(draft) < RepairMinHeadings
          THEN <<"Not enough structured subsections (need >=5).">> ELSE <<>>)
      \o (IF ~HasWord(draft, FenceWords)
          THEN <<"Include at least one fenced code block with concrete examples.">>
          ELSE <<>>)

\* The critique of a draft that failed the quality gate.
Critique(draft) ==
    IF draft = EmptyText THEN <<"The previous reply was empty.">>
    ELSE (IF WordCount(draft) < RepairMinWords
          THEN <<"Too short (must be 800-1500 words).">> ELSE <<>>)
      \o (IF HeadingCount(draft) < RepairMinHeadings
          THEN <<"Not enough structured subsections (need >=5).">> ELSE <<>>)
      \o (IF ~HasWord(draft, FenceWords)
          THEN <<"Include at least one fenced code block with concrete examples.">>
          ELSE <<>>)
      \o (IF ~HasWordThenBlank(draft, DashEndWords)
             /\ ~HasWordThenBlank(draft, StarEndWords)
          THEN <<"Use bullet lists for key steps/responsibilities.">>
          ELSE <<>>)

\* The corrective request: the deficiencies, then the strict rules.
Repair(a, critique) ==
    <<Ln(0, <<Run("repair-regenerate", 3, 3), RoleRun(a),
              Run("repair-addressing", 4, 4)>>),
      Ln(4, <<W("-")>>
              \o (IF critique = <<>>
                  THEN <<W("Improve structure and specificity.")>>
                  ELSE [i \in 1..Len(critique) |-> W(critique[i])])),
      Blank,
      Ln(4, <<Run("repair-strict-rules", 70, 60)>>)>>

NoContentMarker == <<Ln(0, <<W("(no"), W("content)")>>)>>

FirstMessages(a, p, shared) ==
    <<Message("system", SystemPrompt(a)),
      Message("user", CreateUserPrompt(a, p, BuildContext(a, p, shared)))>>

\* The messages of a corrective call, were the draft echoed with the
\* images already put into it.
RepairMessagesWithImages(a, p, shared, draft) ==
    FirstMessages(a, p, shared)
      \o <<Message("assistant",
                   IF draft = EmptyText THEN NoContentMarker
                   ELSE AddImagesToContent(a, draft, p)),
           Message("user", Repair(a, Critique(draft)))>>

RepairMessages(a, p, shared, draft) ==
    FirstMessages(a, p, shared)
      \o <<Message("assistant",
                   IF draft = EmptyText THEN NoContentMarker ELSE draft),
           Message("user", Repair(a, Critique(draft)))>>

\* The loop, were it range(1, 3).
MaxAttemptsTwo == 3 - 1

MaxAttempts == 3

\* ---------------------------------------------------- OrchestratorAgent

\* str.lower() of a word.  The words of the model are lower case but the
\* ones listed here.
LowerTable ==
    "Code" :> "code" @@ "System" :> "system" @@ "API" :> "api" @@
    "Security" :> "security" @@ "Deployment" :> "deployment" @@
    "Quality" :> "quality" @@ "User" :> "user" @@
    "Performance" :> "performance" @@ "Architecture" :> "architecture" @@
    "Integration" :> "integration" @@
    "Implementation" :> "implementation" @@ "Operations" :> "operations" @@
    "Assurance" :> "assurance" @@ "Documentation" :> "documentation" @@
    "Optimization" :> "optimization" @@ "Agent" :> "agent" @@
    "Analysis" :> "analysis" @@ "*Analysis" :> "*analysis" @@
    "Overview" :> "overview" @@ "OVERVIEW" :> "overview" @@
    "Project" :> "project" @@ "Details" :> "details" @@
    "DETAILS" :> "details" @@ "Recommendations" :> "recommendations" @@
    "File" :> "file" @@ "Guide" :> "guide" @@ "Strategy" :> "strategy" @@
    "Draft" :> "draft"

Lower(t) == IF t \in DOMAIN LowerTable THEN LowerTable[t] ELSE t

LowerLine(line) ==
    Ln(line.ind, [i \in 1..Len(line.toks) |->
                    Run(Lower(line.toks[i].t), line.toks[i].n, line.toks[i].d)])

\* text.lower().split(): the lower-cased runs of a text in a row.
RECURSIVE Normalized(_)
Normalized(txt) ==
    IF txt = <<>> THEN <<>>
    ELSE LowerLine(Head(txt)).toks \o Normalized(Tail(txt))

\* set(text.lower().split()), counted: a text has of a run t the distinct
\* words <<t,1>> .. <<t,d>> of the longest of its runs t.  RunCounts maps
\* each t of the runs lo..hi to that d.
MergeCounts(f, g) ==
    [t \in DOMAIN f \cup DOMAIN g |->
       IF t \notin DOMAIN g THEN f[t]
       ELSE IF t \notin DOMAIN f THEN g[t]
       ELSE Max2(f[t], g[t])]

RECURSIVE RunCounts(_, _, _)
RunCounts(toks, lo, hi) ==
    IF lo > hi THEN <<>>
    ELSE IF lo = hi THEN toks[lo].t :> toks[lo].d
    ELSE MergeCounts(RunCounts(toks, lo, (lo + hi) \div 2),
                     RunCounts(toks, (lo + hi) \div 2 + 1, hi))

RECURSIVE SumCounts(_, _)
SumCounts(counts, names) ==
    IF names = {} THEN 0
    ELSE LET t == CHOOSE u \in names : TRUE
         IN  counts[t] + SumCounts(counts, names \ {t})

RECURSIVE SumCommon(_, _, _)
SumCommon(xs, ys, names) ==
    IF names = {} THEN 0
    ELSE LET t == CHOOSE u \in names : TRUE
         IN  Min2(xs[t], ys[t]) + SumCommon(xs, ys, names \ {t})

Vocabulary(txt) ==
    LET toks == Normalized(txt) IN RunCounts(toks, 1, Len(toks))

\* The similarity test, were its threshold 0.85.
TooSimilarAt85(existing, content) ==
    LET ew == Vocabulary(existing)
        cw == Vocabulary(content)
    IN  SumCommon(ew, cw, DOMAIN ew \cap DOMAIN cw) * 100
          > 85 * Max2(SumCounts(ew, DOMAIN ew), SumCounts(cw, DOMAIN cw))

\* The similarity test of _try_add_tab: common / max(len(ew), len(cw)) > 0.65.
TooSimilar(existing, content) ==
    LET ew == Vocabulary(existing)
        cw == Vocabulary(content)
        ewLen == SumCounts(ew, DOMAIN ew)
        cwLen == SumCounts(cw, DOMAIN cw)
        common == SumCommon(ew, cw, DOMAIN ew \cap DOMAIN cw)
    IN  /\ ewLen > 0 /\ cwLen > 0
        /\ common * 100 > 65 * Max2(ewLen, cwLen)

\* The words made of '#', '-', '*' and backquotes only; every other word
\* of the model stands for Len(t) characters that are none of these.
MarkupWords == {"#", "##", "###", "####", "#####", "######", "-", "*",
                "---", "**", "~~~"}
PlainLen(t) == IF t \in MarkupWords THEN 0 ELSE Len(t)

\* [w for w in content.split() if w.strip() and not w.startswith('#')]
NonHeadingLineWords(line) ==
    SumSeq([i \in 1..Len(line.toks) |->
              IF HashRun(line.toks[i].t) >= 1 THEN 0 ELSE line.toks[i].n])
NonHeadingWords(txt) ==
    SumSeq([i \in 1..Len(txt) |-> NonHeadingLineWords(txt[i])])

\* The lines that are neither blank nor start with '#' once stripped.
NonHeadingLines(txt) ==
    Cardinality({i \in 1..Len(txt) :
                    ~IsBlank(txt[i]) /\ HashRun(FirstTok(txt[i])) = 0})

\* len(flat): the characters left without '#', newlines, blanks, '-', '*'
\* and backquotes.
FlatLen(txt) ==
    SumSeq([i \in 1..Len(txt) |->
              SumSeq([j \in 1..Len(txt[i].toks) |->
                        txt[i].toks[j].n * PlainLen(txt[i].toks[j].t)])])

\* The failure phrases, word by word; a phrase is in the lower-cased text
\* where words that hold its words follow one another on a line.
FailurePhrases ==
    {<<"no", "content", "available">>, <<"content", "not", "available">>,
     <<"failed", "to", "generate">>, <<"error", "occurred">>,
     <<"please", "try", "again">>, <<"analysis", "failed">>}

Holds(word, t) ==
    Lower(t) \in {word, "*" \o word, word \o ":", word \o ".", word \o "*"}

PhraseAt(line, j, phrase) ==
    /\ j + Len(phrase) - 1 <= Len(line.toks)
    /\ \A k \in 1..Len(phrase) :
          /\ line.toks[j + k - 1].n = 1
          /\ Holds(phrase[k], line.toks[j + k - 1].t)

HasFailurePhrase(txt) ==
    \E i \in 1..Len(txt) : \E j \in 1..Len(txt[i].toks) :
        \E phrase \in FailurePhrases : PhraseAt(txt[i], j, phrase)

MinSectionWords == 100
MinSectionLines == 5
MinSectionChars == 100

\* The validation filter, were it to drop the empty contents only.
IsValidContentNonEmpty(raw) == Strip(raw) # EmptyText

\* The validation filter, were it to ask for more than five lines.
IsValidContentSixLines(raw) ==
    LET content == Strip(raw)
    IN  /\ content # EmptyText
        /\ NonHeadingWords(content) >= MinSectionWords
        /\ NonHeadingLines(content) > MinSectionLines
        /\ FlatLen(content) >= MinSectionChars
        /\ ~HasFailurePhrase(content)

\* The validation filter of _assemble_final_documentation.
IsValidContent(raw) ==
    LET content == Strip(raw)
    IN  /\ content # EmptyText
        /\ NonHeadingWords(content) >= MinSectionWords
        /\ NonHeadingLines(content) >= MinSectionLines
        /\ FlatLen(content) >= MinSectionChars
        /\ ~HasFailurePhrase(content)

\* An agent result, as collected: the dict entry of agent_results.
Result(name, content, tokens) ==
    [name |-> name, content |-> content, tokens |-> tokens]

ValidResults(results) ==
    SelectSeq(results, LAMBDA r : IsValidContent(r.content))

NamesOf(results) == {results[i].name : i \in 1..Len(results)}
ResultOf(results, a) ==
    results[CHOOSE i \in 1..Len(results) : results[i].name = a]

\* _add_cross_references: the notes appended to an agent's content.
SpecialNotes(a) ==
    CASE a = "Code Architecture Agent" ->
           <<Ln(0, <<W("##"), W("Integration"), W("Notes")>>), Blank,
             Ln(0, <<W("-"), Run("xref-code-1", 10, 3)>>),
             Ln(0, <<W("-"), Run("xref-code-2", 10, 5)>>),
             Ln(0, <<W("-"), Run("xref-code-3", 10, 6)>>), Blank>>
      [] a = "System Architecture Agent" ->
           <<Ln(0, <<W("##"), W("Implementation"), W("References")>>), Blank,
             Ln(0, <<W("-"), Run("xref-system-1", 10, 3)>>),
             Ln(0, <<W("-"), Run("xref-system-2", 11, 4)>>),
             Ln(0, <<W("-"), Run("xref-system-3", 8, 5)>>), Blank>>
      [] a = "API Integration Agent" ->
           <<Ln(0, <<W("##"), W("Related"), W("Documentation")>>), Blank,
             Ln(0, <<W("-"), Run("xref-api-1", 10, 5)>>),
             Ln(0, <<W("-"), Run("xref-api-2", 11, 2)>>),
             Ln(0, <<W("-"), Run("xref-api-3", 9, 4)>>), Blank>>
      [] OTHER -> <<>>

AddCrossReferences(content, a, p) ==
    (IF content = EmptyText THEN <<Blank>> ELSE content)
      \o SpecialNotes(a)
      \o <<Ln(0, <<W("##"), W("Project"), W("Context")>>), Blank,
           Ln(0, <<W("-"), W("**Total"), W("Files"), W("Analyzed**:"),
                   W(NumStr(Len(p.files))), W("files"),
                   Run("tpl-across", 3, 3)>>),
           Ln(0, <<W("-"), W("**Project"), W("Scope**:"), W(p.title)>>),
           Ln(0, <<W("-"), Run("xref-multi-agent", 12, 6)>>)>>

\* _enhance_cross_references
EnhanceCrossReferences(results, p) ==
    [i \in 1..Len(results) |->
       Result(results[i].name,
              AddCrossReferences(results[i].content, results[i].name, p),
              results[i].tokens)]

\* _create_fallback_documentation: the extensions in the order met, and
\* the page built from them.
ExtOf(f) == IF f.ext = "" THEN "other" ELSE f.ext

RECURSIVE ExtsInOrder(_, _)
ExtsInOrder(files, seen) ==
    IF files = <<>> THEN <<>>
    ELSE IF ExtOf(Head(files)) \in seen THEN ExtsInOrder(Tail(files), seen)
    ELSE <<ExtOf(Head(files))>>
           \o ExtsInOrder(Tail(files), seen \cup {ExtOf(Head(files))})

Upper(ext) ==
    CASE ext = "py" -> "PY" [] ext = "md" -> "MD" [] ext = "js" -> "JS"
      [] ext = "json" -> "JSON" [] ext = "other" -> "OTHER" [] OTHER -> ext

RECURSIVE FallbackFileLines(_, _, _)
FallbackFileLines(exts, files, ind0) ==
    IF exts = <<>> THEN <<>>
    ELSE LET mine == SelectSeq(files, LAMBDA f : ExtOf(f) = Head(exts))
             shown == SubSeq(mine, 1, Min2(10, Len(mine)))
         IN  <<Ln(ind0, <<W("###"), W(Upper(Head(exts))), W("Files"),
                           W("(" \o NumStr(Len(mine)) \o ")")>>)>>
               \o [i \in 1..Len(shown) |-> FileNameLine(shown[i])]
               \o (IF Len(mine) > 10
                   THEN <<Ln(0, <<W("-"), W("..."), W("and"),
                                  W(NumStr(Len(mine) - 10)), W("more"),
                                  W("files")>>)>>
                   ELSE <<>>)
               \o <<Blank>>
               \o FallbackFileLines(Tail(exts), files, 0)

\* The fallback page, were it to come out empty.
EmptyFallbackDocumentation(p) == EmptyText

CreateFallbackDocumentation(p) ==
    LET exts == ExtsInOrder(p.files, {})
    IN  <<Ln(0, <<W("#"), W(p.title), W("Documentation")>>), Blank,
          Ln(4, <<W("##"), W("Project"), W("Overview")>>),
          Ln(4, <<Run("fallback-generated-for", 5, 5),
                  W("**" \o p.title \o "**.")>>),
          Blank,
          Ln(4, <<W("**Description**:"), W(p.description)>>), Blank,
          Ln(4, <<W("##"), W("Project"), W("Structure")>>),
          Ln(4, <<Run("fallback-contains", 3, 3),
                  W("**" \o NumStr(Len(p.files))), W("files**"),
                  Run("fallback-analyzed", 3, 3)>>),
          Blank>>
        \o FallbackFileLines(exts, p.files, 4)
        \o <<Ln(IF exts = <<>> THEN 4 ELSE 0,
                <<W("##"), W("Getting"), W("Started")>>),
             Ln(4, <<Run("fallback-to-work", 5, 5)>>), Blank,
             Ln(4, <<W("1."), Run("fallback-step1", 5, 5)>>),
             Ln(4, <<W("2."), Run("fallback-step2", 6, 6)>>),
             Ln(4, <<W("3."), Run("fallback-step3", 3, 3)>>),
             Ln(4, <<W("4."), Run("fallback-step4", 5, 5)>>), Blank,
             Ln(4, <<W("##"), W("Next"), W("Steps")>>),
             Ln(4, <<Run("fallback-basic", 13, 13)>>), Blank,
             Ln(4, <<W("-"), Run("fallback-hint1", 6, 6)>>),
             Ln(4, <<W("-"), Run("fallback-hint2", 7, 7)>>),
             Ln(4, <<W("-"), Run("fallback-hint3", 6, 6)>>),
             Ln(4, <<W("-"), Run("fallback-hint4", 5, 5)>>), Blank,
             Ln(4, <<W("---")>>),
             Ln(4, <<Run("fallback-signature", 5, 5)>>),
             Ln(4, <<>>)>>

\* section_order of _assemble_final_documentation
SectionOrder == AgentNames

\* agent_name.replace(" Agent", " Analysis") and agent_name.replace(" Agent", ""),
\* as words.
AnalysisTitle(a) ==
    [i \in 1..Len(NameWords(a)) |->
       IF NameWords(a)[i].t = "Agent" THEN "Analysis" ELSE NameWords(a)[i].t]
PlainTitle(a) ==
    LET ws == SelectSeq(NameWords(a), LAMBDA w : w.t # "Agent")
    IN  [i \in 1..Len(ws) |-> ws[i].t]

TitleToks(title) == [i \in 1..Len(title) |-> W(title[i])]

\* The title lower-cased and without the tokens _try_add_tab takes out.
RemovedTitleTokens ==
    {"analysis", "documentation", "implementation", "operations",
     "assurance", "optimization"}
TitleBase(title) ==
    SelectSeq([i \in 1..Len(title) |-> Lower(title[i])],
              LAMBDA w : w \notin RemovedTitleTokens)

\* A line that only opens, or closes, a fenced code block.
IsFenceOpen(line) ==
    Len(line.toks) = 1 /\ line.toks[1].n = 1 /\ line.toks[1].t \in FenceWords
IsFenceClose(line) ==
    Len(line.toks) = 1 /\ line.toks[1].n = 1 /\ line.toks[1].t = "~~~"

\* is_trivial_codeblock, line by line: blank, an import, a comment or the
\* name of a script or style file.
ScriptFileWords == {"app.js", "index.js", "App.jsx", "style.css"}
IsTrivialCodeLine(line) ==
    \/ IsBlank(line)
    \/ FirstTok(line) \in {"import", "//"}
    \/ HashRun(FirstTok(line)) >= 1
    \/ (FirstTok(line) = "from" /\ HasWord(<<line>>, {"import"}))
    \/ line.toks[Len(line.toks)].t \in ScriptFileWords

\* The first line after the head of txt that closes a fence (0: none).
CloseIndex(txt) ==
    LET hits == {j \in 2..Len(txt) : IsFenceClose(txt[j])}
    IN  IF hits = {} THEN 0 ELSE CHOOSE j \in hits : \A k \in hits : j <= k

\* Steps 1 and 2 of the cleaning: the fenced blocks that are empty or hold
\* trivial lines only go, one after the other from the top.
RECURSIVE RemoveTrivialCode(_)
RemoveTrivialCode(txt) ==
    IF txt = <<>> THEN <<>>
    ELSE IF IsFenceOpen(Head(txt)) /\ CloseIndex(txt) > 0
    THEN LET j == CloseIndex(txt)
             rest == RemoveTrivialCode(SubSeq(txt, j + 1, Len(txt)))
         IN  IF \A k \in 2..(j - 1) : IsTrivialCodeLine(txt[k])
             THEN <<Blank>> \o rest
             ELSE SubSeq(txt, 1, j) \o rest
    ELSE <<Head(txt)>> \o RemoveTrivialCode(Tail(txt))

\* Step 3: the lines made of '-', '*' and blanks only go.
BulletOnlyWords == {"-", "*", "---", "**"}
IsEmptyBullet(line) ==
    /\ ~IsBlank(line)
    /\ \A j \in 1..Len(line.toks) : line.toks[j].t \in BulletOnlyWords
RemoveEmptyBullets(txt) == SelectSeq(txt, LAMBDA line : ~IsEmptyBullet(line))

CleanedContent(content) == RemoveEmptyBullets(RemoveTrivialCode(content))

\* The md5 digest of ' '.join(cleaned.lower().split()); the digest is
\* taken to be as good as the text it is of.
Fingerprint(content) == Normalized(CleanedContent(content))

\* datetime.now().strftime('%Y-%m-%d %H:%M:%S'): the clock to the second.
ClockStr(ms) ==
    LET sec == ms \div 1000
    IN  CASE sec = 0 -> "00:00:00" [] sec = 1 -> "00:00:01"
          [] sec = 2 -> "00:00:02" [] sec = 3 -> "00:00:03"
          [] sec = 4 -> "00:00:04" [] sec = 5 -> "00:00:05"
          [] sec = 6 -> "00:00:06" [] sec = 7 -> "00:00:07"
          [] sec = 8 -> "00:00:08" [] sec = 9 -> "00:00:09"
          [] OTHER -> "00:00:10"

\* The time of generation, were it put into a heading of its own.
GeneratedInHeading(ms) ==
    Ln(0, <<W("##"), W("Generated"), W("2025-01-01"), W(ClockStr(ms))>>)

GeneratedLine(ms) ==
    Ln(0, <<W("**Generated**:"), W("2025-01-01"), W(ClockStr(ms))>>)

\* The numbered list of the table of contents.
RECURSIVE TocEntries(_, _, _)
TocEntries(order, valid, n) ==
    IF order = <<>> THEN <<>>
    ELSE IF Head(order) \in NamesOf(valid)
    THEN <<Ln(0, <<W(NumStr(n) \o ".")>> \o TitleToks(AnalysisTitle(Head(order))))>>
           \o TocEntries(Tail(order), valid, n + 1)
    ELSE TocEntries(Tail(order), valid, n)

\* full_toc
FullToc(valid, p, ms) ==
    <<Ln(0, <<W("#"), W("Comprehensive"), W("Technical"), W("Documentation")>>),
      Blank,
      Ln(0, <<W("**Project**:"), W(p.title)>>),
      GeneratedLine(ms),
      Ln(0, <<W("**Analysis"), W("Method**:"), W("Multi-Agent"),
              W("Parallel"), W("Processing")>>),
      Ln(0, <<W("**Agents"), W("Deployed**:"), W(NumStr(Len(valid)))>>),
      Blank,
      Ln(0, <<W("**Files"), W("Analyzed**:"), W(NumStr(Len(p.files))),
              W("files")>>),
      Blank,
      Ln(0, <<W("##"), W("Documentation"), W("Sections")>>),
      Blank>>
      \o TocEntries(SectionOrder, valid, 1)

Rule == Ln(0, <<W("---")>>)

\* A section record; the ones _try_add_tab makes carry a section_number.
Tab(title, content, word_count, agent_name) ==
    [title |-> title, content |-> content, word_count |-> word_count,
     agent |-> agent_name]
NumberedTab(title, content, word_count, agent_name, section_number) ==
    [title |-> title, content |-> content, word_count |-> word_count,
     agent |-> agent_name, section_number |-> section_number]

\* The state _try_add_tab works on.
Building(tabs, parts, hashes, titles, count) ==
    [tabs |-> tabs, full_content_parts |-> parts, seen_hashes |-> hashes,
     seen_titles |-> titles, section_count |-> count]

\* _try_add_tab, were it to refuse a candidate for its title alone.
TryAddTabByTitle(b, title, content, agent_name) ==
    IF TitleBase(title) \in b.seen_titles THEN b
    ELSE Building(
           Append(b.tabs,
                  NumberedTab(title, content, NonHeadingWords(content),
                              agent_name, b.section_count)),
           b.full_content_parts
             \o <<Ln(0, <<W("#"), W(NumStr(b.section_count) \o ".")>>
                          \o TitleToks(title)),
                  Blank>>
             \o content
             \o <<Blank, Blank, Rule, Blank>>,
           b.seen_hashes \cup {Fingerprint(content)},
           b.seen_titles \cup {TitleBase(title)},
           b.section_count + 1)

\* _try_add_tab, were it to count the candidates it refuses as well.
TryAddTabCountingRefused(b, title, content, agent_name) ==
    LET base == TitleBase(title)
        h == Fingerprint(content)
    IN
    IF \/ base \in b.seen_titles
       \/ h \in b.seen_hashes
       \/ \E i \in 1..Len(b.tabs) : TooSimilar(b.tabs[i].content, content)
    THEN [b EXCEPT !.section_count = @ + 1]
    ELSE Building(
           Append(b.tabs,
                  NumberedTab(title, content, NonHeadingWords(content),
                              agent_name, b.section_count)),
           b.full_content_parts
             \o <<Ln(0, <<W("#"), W(NumStr(b.section_count) \o ".")>>
                          \o TitleToks(title)),
                  Blank>>
             \o content
             \o <<Blank, Blank, Rule, Blank>>,
           b.seen_hashes \cup {h},
           b.seen_titles \cup {base},
           b.section_count + 1)

\* _try_add_tab, were the candidate among the tabs it is compared with.
TryAddTabAmongCreated(b, title, content, agent_name) ==
    LET base == TitleBase(title)
        h == Fingerprint(content)
    IN
    IF \/ base \in b.seen_titles
       \/ h \in b.seen_hashes
       \/ TooSimilar(content, content)
       \/ \E i \in 1..Len(b.tabs) : TooSimilar(b.tabs[i].content, content)
    THEN b
    ELSE Building(
           Append(b.tabs,
                  NumberedTab(title, content, NonHeadingWords(content),
                              agent_name, b.section_count)),
           b.full_content_parts
             \o <<Ln(0, <<W("#"), W(NumStr(b.section_count) \o ".")>>
                          \o TitleToks(title)),
                  Blank>>
             \o content
             \o <<Blank, Blank, Rule, Blank>>,
           b.seen_hashes \cup {h},
           b.seen_titles \cup {base},
           b.section_count + 1)

\* _try_add_tab: the candidate is refused for its title, its fingerprint or
\* its likeness to a tab made before; else it becomes the next section.
TryAddTab(b, title, content, agent_name) ==
    LET base == TitleBase(title)
        h == Fingerprint(content)
    IN
    IF base \in b.seen_titles THEN b
    ELSE IF h \in b.seen_hashes THEN b
    ELSE IF \E i \in 1..Len(b.tabs) : TooSimilar(b.tabs[i].content, content)
    THEN b
    ELSE Building(
           Append(b.tabs,
                  NumberedTab(title, content, NonHeadingWords(content),
                              agent_name, b.section_count)),
           b.full_content_parts
             \o <<Ln(0, <<W("#"), W(NumStr(b.section_count) \o ".")>>
                          \o TitleToks(title)),
                  Blank>>
             \o content
             \o <<Blank, Blank, Rule, Blank>>,
           b.seen_hashes \cup {h},
           b.seen_titles \cup {base},
           b.section_count + 1)

\* The first loop, were it to go over the valid results as they were
\* collected instead of over section_order.
RECURSIVE AddAsCollected(_, _, _)
AddAsCollected(b, order, valid) ==
    IF valid = <<>> THEN b
    ELSE AddAsCollected(TryAddTab(b, AnalysisTitle(Head(valid).name),
                                  Strip(Head(valid).content),
                                  Head(valid).name),
                        order, Tail(valid))

\* The loop over section_order.
RECURSIVE AddOrdered(_, _, _)
AddOrdered(b, order, valid) ==
    IF order = <<>> THEN b
    ELSE IF Head(order) \in NamesOf(valid)
    THEN AddOrdered(TryAddTab(b, AnalysisTitle(Head(order)),
                              Strip(ResultOf(valid, Head(order)).content),
                              Head(order)),
                    Tail(order), valid)
    ELSE AddOrdered(b, Tail(order), valid)

\* The second loop, were it to take the agents that section_order does not
\* name from the last of the mapping to the first.
RECURSIVE AddOthersReversed(_, _)
AddOthersReversed(b, valid) ==
    IF valid = <<>> THEN b
    ELSE LET last == valid[Len(valid)]
             rest == SubSeq(valid, 1, Len(valid) - 1)
         IN  IF last.name \in AllAgents \/ Strip(last.content) = EmptyText
             THEN AddOthersReversed(b, rest)
             ELSE AddOthersReversed(TryAddTab(b, PlainTitle(last.name),
                                              Strip(last.content), last.name),
                                    rest)

\* The loop over the agents that section_order does not name.
RECURSIVE AddOthers(_, _)
AddOthers(b, valid) ==
    IF valid = <<>> THEN b
    ELSE IF Head(valid).name \in AllAgents \/ Strip(Head(valid).content) = EmptyText
    THEN AddOthers(b, Tail(valid))
    ELSE AddOthers(TryAddTab(b, PlainTitle(Head(valid).name),
                             Strip(Head(valid).content), Head(valid).name),
                   Tail(valid))

Documentation(content, tabs) == [content |-> content, tabs |-> tabs]

\* The assembler, were the overview to go through _try_add_tab before the
\* agents' sections: its title is among the seen ones.
AssembleOverviewFirst(results, p, ms) ==
    LET valid == ValidResults(results)
        fallback == CreateFallbackDocumentation(p)
        full_toc == FullToc(valid, p, ms)
        start == Building(<<>>, full_toc \o <<Blank, Rule, Blank>>, {},
                          {TitleBase(<<"Documentation", "Overview">>)}, 1)
        built == AddOthers(AddOrdered(start, SectionOrder, valid), valid)
    IN  IF valid = <<>> \/ built.tabs = <<>>
        THEN Documentation(fallback,
                 <<Tab(<<"Project", "Overview">>, fallback,
                       WordCount(fallback), "Fallback")>>)
        ELSE Documentation(built.full_content_parts,
                 IF Len(built.tabs) > 1
                 THEN <<Tab(<<"Documentation", "Overview">>, full_toc,
                            WordCount(full_toc), "Orchestrator")>> \o built.tabs
                 ELSE built.tabs)

\* _assemble_final_documentation, run when the clock shows ms.
AssembleFinalDocumentation(results, p, ms) ==
    LET valid == ValidResults(results)
        fallback == CreateFallbackDocumentation(p)
        full_toc == FullToc(valid, p, ms)
        start == Building(<<>>, full_toc \o <<Blank, Rule, Blank>>, {}, {}, 1)
        built == AddOthers(AddOrdered(start, SectionOrder, valid), valid)
        tabs == IF built.tabs = <<>>
                THEN <<Tab(<<"Project", "Analysis">>, fallback,
                           WordCount(fallback), "Fallback")>>
                ELSE built.tabs
        parts == IF built.tabs = <<>> THEN fallback
                 ELSE built.full_content_parts
    IN  IF valid = <<>>
        THEN Documentation(fallback,
                 <<Tab(<<"Project", "Overview">>, fallback,
                       WordCount(fallback), "Fallback")>>)
        ELSE Documentation(parts,
                 IF Len(tabs) > 1
                 THEN <<Tab(<<"Documentation", "Overview">>, full_toc,
                            WordCount(full_toc), "Orchestrator")>> \o tabs
                 ELSE tabs)

\* agent_sections of _simulate_comprehensive_generation: the titles and
\* the number of words of the descriptions.
SimulatedSections ==
    <<[title |-> <<"Code", "Architecture", "Analysis">>, words |-> 6],
      [title |-> <<"System", "Architecture", "Analysis">>, words |-> 6],
      [title |-> <<"API", "Integration", "Documentation">>, words |-> 6],
      [title |-> <<"Security", "Implementation", "Analysis">>, words |-> 5],
      [title |-> <<"Deployment", "Operations", "Guide">>, words |-> 5],
      [title |-> <<"Quality", "Assurance", "Strategy">>, words |-> 6],
      [title |-> <<"User", "Documentation", "Guide">>, words |-> 5],
      [title |-> <<"Performance", "Optimization", "Analysis">>, words |-> 5]>>

LowerToks(title) == [i \in 1..Len(title) |-> W(Lower(title[i]))]

RECURSIVE JoinWords(_)
JoinWords(words) ==
    IF Len(words) = 1 THEN words[1]
    ELSE words[1] \o " " \o JoinWords(Tail(words))

\* simulated_content of section i
SimulatedContent(i, p) ==
    LET sec == SimulatedSections[i]
    IN  <<Ln(0, <<W("#")>> \o TitleToks(sec.title)), Blank,
          Ln(0, <<W("##"), W("Overview")>>),
          Ln(0, <<Run("sim-description-" \o NumStr(i), sec.words, sec.words)>>),
          Blank,
          Ln(0, <<W("##"), W("Detailed"), W("Analysis")>>),
          Ln(0, <<W("*[This"), Run("sim-would-contain", 4, 4)>>
                  \o LowerToks(sec.title)
                  \o <<W("for"), W(p.title \o "]*")>>),
          Blank,
          Ln(0, <<W("###"), Run("sim-key-components", 3, 3)>>),
          Ln(0, <<W("-"), Run("sim-component-analysis", 4, 4),
                  W(NumStr(Len(p.files))), W("project"), W("files")>>),
          Ln(0, <<W("-"), Run("sim-component2", 5, 5)>>),
          Ln(0, <<W("-"), Run("sim-component3", 5, 5)>>),
          Ln(0, <<W("-"), Run("sim-component4", 5, 5)>>),
          Blank,
          Ln(0, <<W("###"), W("Technical"), W("Implementation")>>),
          Ln(0, <<W("The")>> \o LowerToks(sec.title)
                  \o <<Run("sim-reveals", 4, 4)>>),
          Blank,
          Ln(0, <<W("1."), Run("sim-aspect1", 6, 6)>>),
          Ln(0, <<W("2."), Run("sim-aspect2", 5, 5)>>),
          Ln(0, <<W("3."), Run("sim-aspect3", 6, 6)>>),
          Ln(0, <<W("4."), Run("sim-aspect4", 5, 5)>>),
          Blank,
          Ln(0, <<W("###"), W("Recommendations")>>),
          Ln(0, <<W("-"), Run("sim-advice1", 5, 5)>>),
          Ln(0, <<W("-"), Run("sim-advice2", 5, 5)>>),
          Ln(0, <<W("-"), Run("sim-advice3", 6, 6)>>),
          Ln(0, <<W("-"), Run("sim-advice4", 5, 5)>>),
          Blank,
          Ln(0, <<W("###"), W("Cross-Agent"), W("Integration")>>),
          Ln(0, <<Run("sim-integrates", 20, 18)>>),
          Blank,
          Ln(0, <<Run("sim-note", 22, 20)>>),
          Blank>>

\* The seven parts full_content_parts starts with.
SimulatedHead(p, ms) ==
    <<Ln(0, <<W("#"), W("Comprehensive"), W("Technical"), W("Documentation")>>),
      Blank,
      Ln(0, <<W("**Project**:"), W(p.title)>>), Blank,
      GeneratedLine(ms), Blank,
      Ln(0, <<W("**Analysis"), W("Method**:"), W("Multi-Agent"),
              W("Simulation")>>), Blank,
      Ln(0, <<W("**Files"), W("Analyzed**:"), W(NumStr(Len(p.files))),
              W("files")>>), Blank, Blank,
      Ln(0, <<W("##"), W("Multi-Agent"), W("Analysis"), W("Overview")>>),
      Blank,
      Ln(0, <<Run("sim-generated-using", 12, 12)>>), Blank, Blank>>

SimulatedEntry(i) ==
    Ln(0, <<W(NumStr(i) \o ".")>> \o TitleToks(SimulatedSections[i].title))

RECURSIVE SimulatedParts(_, _)
SimulatedParts(i, p) ==
    IF i > Len(SimulatedSections) THEN <<>>
    ELSE <<SimulatedEntry(i)>> \o SimulatedContent(i, p)
           \o <<Blank, Rule, Blank>> \o SimulatedParts(i + 1, p)

SimBaseMs == 3000
SimPerFileMs == 800

\* time.sleep(3 + file_count * 0.8), in milliseconds
SimulationTime(p) == SimBaseMs + SimPerFileMs * Len(p.files)

\* What a generation call returns.
GenerationResult(content, tabs, model, tokens, elapsed, at, method, agents) ==
    [content |-> content, tabs |-> tabs, model |-> model,
     tokens_used |-> tokens, processing_time_ms |-> elapsed,
     generated_at |-> at, method |-> method,
     agents_deployed |-> agents, sections_generated |-> Len(tabs)]

\* _simulate_comprehensive_generation, were it to leave out the overview.
SimulateWithoutOverview(p, start, ms) ==
    LET full_content == SimulatedHead(p, ms) \o SimulatedParts(1, p)
        tabs ==
            [i \in 1..Len(SimulatedSections) |->
               Tab(SimulatedSections[i].title, SimulatedContent(i, p),
                   WordCount(SimulatedContent(i, p)),
                   JoinWords(SimulatedSections[i].title) \o " Agent")]
    IN  GenerationResult(full_content, tabs, "multi-agent-simulation",
                         CharLen(full_content) \div 4, ms - start, ms,
                         "multi-agent-simulation", Len(SimulatedSections))

\* _simulate_comprehensive_generation, returning when the clock shows ms.
SimulateComprehensiveGeneration(p, start, ms) ==
    LET full_content == SimulatedHead(p, ms) \o SimulatedParts(1, p)
        overview_content == SimulatedHead(p, ms) \o <<SimulatedEntry(1)>>
        tabs ==
            <<Tab(<<"Documentation", "Overview">>, overview_content,
                  WordCount(overview_content), "Orchestrator")>>
              \o [i \in 1..Len(SimulatedSections) |->
                    Tab(SimulatedSections[i].title, SimulatedContent(i, p),
                        WordCount(SimulatedContent(i, p)),
                        JoinWords(SimulatedSections[i].title) \o " Agent")]
    IN  GenerationResult(full_content, tabs, "multi-agent-simulation",
                         CharLen(full_content) \div 4, ms - start, ms,
                         "multi-agent-simulation", Len(SimulatedSections))

\* ------------------------------------------------------------ the backend

\* What a chat completion returns: the message text and usage.total_tokens
\* (0: the response reports no usage).
Reply(text, usage) == [text |-> text, usage |-> usage]

TitleLine(a) == Ln(0, <<W("#")>> \o NameWords(a) \o <<W("Analysis")>>)

\* A draft that passes the quality gate, in the agent's own words.
GoodDraft(a) ==
    <<TitleLine(a), Blank,
      Ln(0, <<W("##"), W("Overview")>>),
      Ln(0, <<Run("draft-overview-" \o a, 400, 30)>>),
      Blank,
      Ln(0, <<W("##"), W("File"), W("insights")>>),
      Ln(0, <<W("-"), Run("draft-insight1-" \o a, 100, 20)>>),
      Ln(0, <<W("-"), Run("draft-insight2-" \o a, 100, 20)>>),
      Blank,
      Ln(0, <<W("##"), W("Recommendations")>>),
      Ln(0, <<W("1."), Run("draft-advice-" \o a, 100, 10)>>),
      Ln(0, <<W("2."), Run("common-advice", 40, 10)>>)>>

\* A draft too short for the gate, in the agent's own words.
ShortDraft(a) ==
    <<TitleLine(a), Blank,
      Ln(0, <<W("##"), W("Overview")>>),
      Ln(0, <<Run("draft-overview-" \o a, 90, 30)>>),
      Ln(0, <<W("-"), Run("draft-insight1-" \o a, 20, 20)>>),
      Ln(0, <<W("-"), Run("draft-insight2-" \o a, 20, 20)>>),
      Ln(0, <<W("-"), Run("common-advice", 10, 10)>>),
      Ln(0, <<Run("draft-advice-" \o a, 10, 10)>>)>>

\* A longer draft that still fails the gate: no list in it.
LongerDraft(a) ==
    <<TitleLine(a), Blank,
      Ln(0, <<W("##"), W("Overview")>>),
      Ln(0, <<Run("draft-overview-" \o a, 500, 30)>>),
      Ln(0, <<W("##"), W("Details")>>),
      Ln(0, <<Run("draft-insight1-" \o a, 150, 20)>>),
      Ln(0, <<Run("draft-insight2-" \o a, 50, 20)>>),
      Ln(0, <<Run("draft-insight3-" \o a, 50, 20)>>),
      Ln(0, <<Run("draft-advice-" \o a, 50, 10)>>)>>

\* A long draft with subsections and a fenced block that fails the gate
\* for one thing only: no list in it.
ListlessDraft(a) ==
    <<TitleLine(a), Blank,
      Ln(0, <<W("##"), W("Overview")>>),
      Ln(0, <<Run("draft-overview-" \o a, 500, 30)>>),
      Ln(0, <<W("##"), W("Files")>>),
      Ln(0, <<Run("draft-insight1-" \o a, 150, 20)>>),
      Ln(0, <<W("~~~python")>>),
      Ln(0, <<Run("draft-code-" \o a, 20, 20)>>),
      Ln(0, <<W("~~~")>>),
      Ln(0, <<W("##"), W("Architecture")>>),
      Ln(0, <<Run("draft-insight2-" \o a, 100, 20)>>),
      Ln(0, <<W("##"), W("Security")>>),
      Ln(0, <<Run("draft-insight3-" \o a, 50, 20)>>),
      Ln(0, <<W("##"), W("Recommendations")>>),
      Ln(0, <<Run("draft-advice-" \o a, 100, 10)>>)>>

\* A passing draft that is the same whichever agent asked: boilerplate.
BoilerplateDraft ==
    <<Ln(0, <<W("#"), W("Project"), W("Analysis")>>), Blank,
      Ln(0, <<W("##"), W("Overview")>>),
      Ln(0, <<Run("boilerplate-overview", 500, 40)>>),
      Blank,
      Ln(0, <<W("##"), W("Details")>>),
      Ln(0, <<W("-"), Run("boilerplate-detail1", 100, 20)>>),
      Ln(0, <<W("-"), Run("boilerplate-detail2", 100, 20)>>),
      Ln(0, <<W("-"), Run("common-advice", 40, 10)>>),
      Blank,
      Ln(0, <<W("##"), W("Recommendations")>>),
      Ln(0, <<W("*"), Run("boilerplate-advice", 30, 10)>>)>>

\* The boilerplate with a fenced block of imports put in.
PaddedBoilerplate ==
    SubSeq(BoilerplateDraft, 1, 5)
      \o <<Ln(0, <<W("~~~python")>>),
           Ln(0, <<W("import"), Run("imported-module", 120, 120)>>),
           Ln(0, <<W("~~~")>>), Blank>>
      \o SubSeq(BoilerplateDraft, 6, Len(BoilerplateDraft))

\* The boilerplate with own of its distinct words (own <= 60) given up for
\* words of the variant's own, and its headings in capitals.
VariantDraft(own) ==
    LET x == Min2(own, 40)
        y == own - x
    IN  <<Ln(0, <<W("#"), W("Project"), W("Analysis")>>), Blank,
          Ln(0, <<W("##"), W("OVERVIEW")>>),
          Ln(0, <<Run("boilerplate-overview", 400, 40 - x),
                  Run("variant-words", 100, own)>>),
          Blank,
          Ln(0, <<W("##"), W("DETAILS")>>)>>
          \o (IF y < 20
              THEN <<Ln(0, <<W("-"), Run("boilerplate-detail1", 100, 20 - y)>>)>>
              ELSE <<>>)
          \o <<Ln(0, <<W("-"), Run("boilerplate-detail2", 100, 20)>>),
               Ln(0, <<W("-"), Run("common-advice", 40, 10)>>),
               Blank,
               Ln(0, <<W("##"), W("Recommendations")>>),
               Ln(0, <<W("*"), Run("boilerplate-advice", 30, 10)>>)>>

\* The entry _run_agents_parallel makes for a task that raised.
FailurePlaceholder(a) ==
    <<TitleLine(a), Blank,
      Ln(0, <<W("*Analysis"), W("failed:"), W("error*")>>)>>

\* The replies the backend gives an agent when the agent is run alone.
AgentReplies(a) ==
    {Reply(EmptyText, 0), Reply(ShortDraft(a), 40), Reply(ShortDraft(a), 0),
     Reply(LongerDraft(a), 300), Reply(ListlessDraft(a), 700),
     Reply(GoodDraft(a), 900), Reply(BoilerplateDraft, 800)}

\* The replies it gives an agent of an orchestrated run.
RunReplies(a) == {Reply(GoodDraft(a), 900)}

\* ------------------------------------------------------------------ state

VARIABLES
    project,               \* project_data: the snapshot of the run
    svcClient,             \* MultiAgentService.client is set
    pc,                    \* where the generation call stands
    client,                \* OrchestratorAgent.client is set
    shared_context,        \* OrchestratorAgent.shared_context
    agent,                 \* the DocumentationAgent of each name, and its run
    agent_results,         \* _run_agents_parallel: [name, content, tokens], as collected
    total_tokens,          \* OrchestratorAgent.total_tokens
    enhanced_results,      \* the results after _enhance_cross_references
    final_documentation,   \* what _assemble_final_documentation returned
    result,                \* what the generation call returned
    now,                   \* the clock, in milliseconds
    start_time,            \* the clock when the generation call began
    fault,                 \* the phase an internal error was raised in, if any
    qdraft,                \* a draft handed to _passes_quality
    qverdict,              \* what _passes_quality said of it
    runs,                  \* the assembler's invocations: [at, out]
    store,                 \* the row of the project in the projects table
    job                    \* where the generation job of the project stands

vars ==
    <<project, svcClient, pc, client, shared_context, agent, agent_results,
      total_tokens, enhanced_results, final_documentation, result, now,
      start_time, fault, qdraft, qverdict, runs, store, job>>

orchVars ==
    <<svcClient, pc, client, shared_context, agent_results, total_tokens,
      enhanced_results, final_documentation, result, now, start_time, fault>>
qualityVars == <<qdraft, qverdict>>
jobVars == <<store, job>>

None == [none |-> TRUE]

\* A DocumentationAgent as constructed, with the locals of analyze_project:
\* st is idle (not called), called, waiting (a backend call is out) or
\* returned; seen and raisedAt record the drafts got and the attempt whose
\* call raised.
NewAgent(hasClient) ==
    [st |-> "idle", openai_client |-> hasClient, attempt |-> 0,
     messages |-> <<>>, total_tokens_used |-> 0, best_content |-> EmptyText,
     calls |-> 0, seen |-> <<>>, raisedAt |-> 0,
     content |-> EmptyText, tokens |-> 0, tokens_used |-> 0]

Returned(rec, content, tokens) ==
    [rec EXCEPT !.st = "returned", !.content = content, !.tokens = tokens]

\* analyze_project up to its first backend call.
AnalyzeBegin(a) ==
    /\ agent[a].st = "called"
    /\ agent' = [agent EXCEPT ![a] =
         IF ~agent[a].openai_client
         THEN Returned(@, SimulateContent(a, project), 0)
         ELSE [@ EXCEPT !.st = "waiting", !.attempt = 1, !.calls = 1,
                        !.messages = FirstMessages(a, project, shared_context)]]
    /\ UNCHANGED <<project, orchVars, qualityVars, runs, jobVars>>

\* The call of the current attempt returns r: the rest of the loop body.
BackendReply(a, r) ==
    /\ agent[a].st = "waiting"
    /\ LET rec == agent[a]
           draft == Strip(r.text)
           total == rec.total_tokens_used + r.usage
           best == IF CharLen(draft) > CharLen(rec.best_content)
                   THEN draft ELSE rec.best_content
           got == [rec EXCEPT !.total_tokens_used = total,
                              !.best_content = best,
                              !.seen = Append(@, draft)]
       IN  agent' = [agent EXCEPT ![a] =
             IF PassesQuality(draft)
             THEN Returned([got EXCEPT !.tokens_used = @ + total],
                           AddImagesToContent(a, draft, project), total)
             ELSE IF rec.attempt < MaxAttempts
             THEN [got EXCEPT !.attempt = @ + 1, !.calls = @ + 1,
                              !.messages = RepairMessages(a, project,
                                               shared_context, draft)]
             ELSE Returned([got EXCEPT !.tokens_used = @ + total],
                           IF best # EmptyText
                           THEN AddImagesToContent(a, best, project)
                           ELSE DraftIncomplete,
                           total)]
    /\ UNCHANGED <<project, orchVars, qualityVars, runs, jobVars>>

\* The except clause, were it to hand back the best draft of the run.
BackendRaiseKeepsBest(a) ==
    /\ agent[a].st = "waiting"
    /\ agent' = [agent EXCEPT ![a] =
         Returned([@ EXCEPT !.raisedAt = agent[a].attempt],
                  IF agent[a].best_content # EmptyText
                  THEN AddImagesToContent(a, agent[a].best_content, project)
                  ELSE SimulateContent(a, project),
                  agent[a].total_tokens_used)]
    /\ UNCHANGED <<project, orchVars, qualityVars, runs, jobVars>>

\* The call of the current attempt raises: the except clause.
BackendRaise(a) ==
    /\ agent[a].st = "waiting"
    /\ agent' = [agent EXCEPT ![a] =
         Returned([@ EXCEPT !.raisedAt = agent[a].attempt],
                  SimulateContent(a, project), 0)]
    /\ UNCHANGED <<project, orchVars, qualityVars, runs, jobVars>>

\* ---------------------------------------------------- one agent run alone

OrchIdle ==
    /\ svcClient = FALSE /\ pc = "idle" /\ client = FALSE
    /\ shared_context = <<>> /\ agent_results = <<>> /\ total_tokens = 0
    /\ enhanced_results = <<>> /\ final_documentation = None
    /\ result = None /\ now = 0 /\ start_time = 0 /\ fault = "none"

QualityIdle == qdraft = EmptyText /\ qverdict = "none"

\* No generation job: the projects table is not written.
JobIdle == store = None /\ job = "none"

InitAgent ==
    /\ project \in Snapshots
    /\ \E a \in AllAgents, hasClient \in BOOLEAN :
         agent = [b \in AllAgents |->
                    IF b = a THEN [NewAgent(hasClient) EXCEPT !.st = "called"]
                    ELSE NewAgent(hasClient)]
    /\ OrchIdle /\ QualityIdle /\ runs = <<>> /\ JobIdle

NextAgent ==
    \E a \in AllAgents :
        \/ AnalyzeBegin(a)
        \/ \E r \in AgentReplies(a) : BackendReply(a, r)
        \/ BackendRaise(a)

SpecAgent == InitAgent /\ [][NextAgent]_vars

\* ------------------------------------------------- the quality gate alone

MaxHeadings == 3
BoundaryWords == {MinQualityWords - 1, MinQualityWords}
ListKinds == {"none", "dash", "star", "numbered", "version"}

HeadingMark(level) ==
    CASE level = 1 -> "#" [] level = 2 -> "##" [] OTHER -> "###"

HeadingLines(levels) ==
    [i \in 1..Len(levels) |-> Ln(0, <<W(HeadingMark(levels[i])), W("Section")>>)]

\* The line of a draft that is, or is not, a list item; "version" is prose
\* that mentions a version number.
ListLine(kind) ==
    CASE kind = "dash" -> Ln(0, <<W("-"), W("item")>>)
      [] kind = "star" -> Ln(0, <<W("*"), W("item")>>)
      [] kind = "numbered" -> Ln(0, <<W("1."), W("item")>>)
      [] kind = "version" -> Ln(0, <<W("release"), W("v1.2")>>)
      [] OTHER -> Ln(0, <<W("plain"), W("item")>>)

\* A draft of exactly the given number of words: a first line that is a
\* title heading or prose, heading lines of the given levels, one list line
\* of the given kind, and prose to fill.
QualityDraft(titled, levels, kind, words) ==
    LET first == IF titled THEN Ln(0, <<W("#"), W("Title")>>)
                 ELSE Ln(0, <<W("Some"), W("introduction")>>)
        head == <<first>> \o HeadingLines(levels) \o <<ListLine(kind)>>
    IN  head \o <<Ln(0, <<Run("prose", words - WordCount(head), 50)>>)>>

QualityDrafts ==
    {QualityDraft(titled, levels, kind, words) :
        titled \in BOOLEAN,
        levels \in UNION {[1..k -> 1..3] : k \in 0..MaxHeadings},
        kind \in ListKinds,
        words \in BoundaryWords}

\* _passes_quality is called on the draft.
CheckQuality ==
    /\ qverdict = "none"
    /\ qverdict' = IF PassesQuality(qdraft) THEN "pass" ELSE "fail"
    /\ UNCHANGED <<project, agent, orchVars, qdraft, runs, jobVars>>

AgentsIdle == agent = [a \in AllAgents |-> NewAgent(FALSE)]

InitQuality ==
    /\ qdraft \in QualityDrafts /\ qverdict = "none"
    /\ project = Snapshot("Portal", <<>>)
    /\ AgentsIdle /\ OrchIdle /\ runs = <<>> /\ JobIdle

NextQuality == CheckQuality

SpecQuality == InitQuality /\ [][NextQuality]_vars

\* What a reader of markdown counts: the heading lines and the list items.
IsHeadingLine(line) == HashRun(FirstTok(line)) >= 1 /\ Len(line.toks) >= 2
MarkdownHeadings(txt) == Cardinality({i \in 1..Len(txt) : IsHeadingLine(txt[i])})
IsListItem(line) ==
    /\ Len(line.toks) >= 2
    /\ FirstTok(line) \in {"-", "*", "+", "1.", "2.", "3.", "4."}
ListItems(txt) == Cardinality({i \in 1..Len(txt) : IsListItem(txt[i])})

\* C7: _passes_quality says pass exactly for the drafts of at least 700
\* words, at least 3 markdown heading lines and at least one list item,
\* wherever the headings stand and whatever their level.
C7_GateIsWordsHeadingsLists ==
    qverdict # "none" =>
        ((qverdict = "pass") <=>
            /\ WordCount(qdraft) >= 700
            /\ MarkdownHeadings(qdraft) >= 3
            /\ ListItems(qdraft) >= 1)

\* ------------------------------------------------ claims on a single agent

HasReturned(a) == agent[a].st = "returned"
NonEmpty(txt) == WordCount(txt) > 0

\* C4: whatever the backend does on each of the up to three calls (text,
\* empty text, raising), and without a backend client too, analyze_project
\* ends by returning non-empty content and a token count >= 0; it has no
\* other way to end.
C4_AgentAlwaysReturnsContent ==
    \A a \in AllAgents :
        /\ agent[a].st \in {"idle", "called", "waiting", "returned"}
        /\ HasReturned(a) =>
             /\ NonEmpty(agent[a].content)
             /\ agent[a].tokens >= 0
             /\ ~agent[a].openai_client =>
                  agent[a].calls = 0 /\ agent[a].tokens = 0
        /\ agent[a].st = "waiting" => agent[a].calls <= 3

\* C4 witness: an agent has returned non-empty content after its second
\* call raised.
C4_Witness ==
    \E a \in AllAgents :
        /\ HasReturned(a) /\ agent[a].raisedAt = 2
        /\ NonEmpty(agent[a].content)

AnyPasses(drafts) == \E i \in 1..Len(drafts) : PassesQuality(drafts[i])

\* C5: with a backend that never raises, a run makes 1 to 3 calls, stops
\* at the first draft that passes the gate, makes exactly 3 when none
\* passes, and after three empty replies returns non-empty content.
C5_CallBudget ==
    \A a \in AllAgents :
        (HasReturned(a) /\ agent[a].openai_client /\ agent[a].raisedAt = 0) =>
            LET n == agent[a].calls
                drafts == agent[a].seen
            IN  /\ n >= 1 /\ n <= 3
                /\ Len(drafts) = n
                /\ \A i \in 1..(n - 1) : ~PassesQuality(drafts[i])
                /\ n < 3 => PassesQuality(drafts[n])
                /\ ~AnyPasses(drafts) => n = 3
                /\ (\A i \in 1..n : drafts[i] = EmptyText) =>
                       n = 3 /\ NonEmpty(agent[a].content)

\* C5 witness: an agent has returned after three empty replies.
C5_Witness ==
    \E a \in AllAgents :
        /\ HasReturned(a) /\ agent[a].raisedAt = 0
        /\ agent[a].seen = <<EmptyText, EmptyText, EmptyText>>
        /\ agent[a].calls = 3
        /\ agent[a].content = DraftIncomplete

RECURSIVE BestOf(_)
\* The longest of the drafts, the earliest of the longest.
BestOf(drafts) ==
    IF drafts = <<>> THEN EmptyText
    ELSE LET before == BestOf(SubSeq(drafts, 1, Len(drafts) - 1))
             last == drafts[Len(drafts)]
         IN  IF CharLen(last) > CharLen(before) THEN last ELSE before

\* C6 as stated: after a backend call raised, the agent goes on within its
\* budget of 3 attempts and, the budget spent, returns the best draft seen.
C6_RaiseIsRetried ==
    \A a \in AllAgents :
        (HasReturned(a) /\ agent[a].raisedAt > 0) =>
            /\ agent[a].calls = 3 \/ AnyPasses(agent[a].seen)
            /\ BestOf(agent[a].seen) # EmptyText =>
                 agent[a].content =
                     AddImagesToContent(a, BestOf(agent[a].seen), project)

\* C6 amended: the first backend call that raises ends the run: no further
\* call is made, the drafts and token counts got so far are dropped, and
\* the template analysis is returned with 0 tokens. The best draft seen is
\* returned only when three calls returned and none passed the gate.
C6_RaiseEndsRunWithTemplate ==
    \A a \in AllAgents :
        HasReturned(a) =>
            /\ agent[a].raisedAt > 0 =>
                 /\ agent[a].calls = agent[a].raisedAt
                 /\ Len(agent[a].seen) = agent[a].raisedAt - 1
                 /\ agent[a].content = SimulateContent(a, project)
                 /\ agent[a].tokens = 0
                 /\ agent[a].tokens_used = 0
            /\ (agent[a].raisedAt = 0 /\ agent[a].openai_client
                  /\ ~AnyPasses(agent[a].seen)) =>
                 /\ agent[a].calls = 3
                 /\ agent[a].content =
                      IF BestOf(agent[a].seen) # EmptyText
                      THEN AddImagesToContent(a, BestOf(agent[a].seen), project)
                      ELSE DraftIncomplete

\* C6 witness: the third call raised after two non-empty drafts, and the
\* agent returned the template analysis.
C6_Witness ==
    \E a \in AllAgents :
        /\ HasReturned(a) /\ agent[a].raisedAt = 3
        /\ BestOf(agent[a].seen) # EmptyText
        /\ agent[a].content = SimulateContent(a, project)
        /\ agent[a].tokens = 0

\* The words that carry the base64 payload of an image of the snapshot,
\* and the texts that hold one.
PayloadWords(p) ==
    LET imgs == ExtractEmbeddedImages(p.files)
    IN  {PayloadWord(imgs[i]) : i \in 1..Len(imgs)}
    \cup {imgs[i].data : i \in 1..Len(imgs)}
HasPayload(txt, p) ==
    \E i \in 1..Len(txt) : \E j \in 1..Len(txt[i].toks) :
        txt[i].toks[j].t \in PayloadWords(p)

\* C18: no message of a backend call (the system prompt, the user prompt,
\* the draft echoed as the assistant's message, the corrective request)
\* holds the payload of an image, nor does a draft the agent keeps; a
\* payload is found in the content an agent has returned only.
C18_NoPayloadInMessages ==
    \A a \in AllAgents :
        /\ \A i \in 1..Len(agent[a].messages) :
              ~HasPayload(agent[a].messages[i].content, project)
        /\ ~HasPayload(agent[a].best_content, project)
        /\ HasPayload(agent[a].content, project) => agent[a].st = "returned"

\* C18 witness: an agent made a corrective call, echoing its first draft,
\* and then returned a content with the payload of an image in it.
C18_Witness ==
    \E a \in AllAgents :
        /\ agent[a].st = "returned" /\ agent[a].calls >= 2
        /\ Len(agent[a].messages) = 4
        /\ agent[a].messages[3].content = agent[a].seen[agent[a].calls - 1]
        /\ HasPayload(agent[a].content, project)

\* ------------------------------------------------- the assembler alone

NumAssembled == 3
MaxClock == 1000
TickMs == 1000

\* The agents whose results are assembled: the ones that get the same
\* cross references.
AssembledAgents == SubSeq(AgentNames, 4, 3 + NumAssembled)

\* What an agent's entry can hold before the cross references are added.
Outputs(a, p) ==
    <<BoilerplateDraft, PaddedBoilerplate, VariantDraft(38), VariantDraft(45),
      SimulateContent(a, p), FailurePlaceholder(a)>>

InitAssemble ==
    /\ project = Snapshot("Portal", <<AppPy, GuideMd>>)
    /\ \E choice \in [1..NumAssembled -> 1..Len(Outputs(AgentNames[1], project))] :
         enhanced_results =
           EnhanceCrossReferences(
             [i \in 1..NumAssembled |->
                Result(AssembledAgents[i],
                       Outputs(AssembledAgents[i], project)[choice[i]], 0)],
             project)
    /\ svcClient = TRUE /\ pc = "assemble" /\ client = TRUE
    /\ shared_context = <<>> /\ agent_results = <<>> /\ total_tokens = 0
    /\ final_documentation = None /\ result = None /\ now = 0
    /\ start_time = 0 /\ fault = "none"
    /\ AgentsIdle /\ QualityIdle /\ runs = <<>> /\ JobIdle

\* Time passes.
Tick ==
    /\ now + TickMs <= MaxClock
    /\ now' = now + TickMs
    /\ UNCHANGED <<project, svcClient, pc, client, shared_context, agent,
                   agent_results, total_tokens, enhanced_results,
                   final_documentation, result, start_time, fault,
                   qualityVars, runs, jobVars>>

\* _assemble_final_documentation is called on the results and the snapshot.
AssembleCall ==
    /\ pc = "assemble" /\ Len(runs) < 2
    /\ runs' = Append(runs,
                 [at |-> now,
                  out |-> AssembleFinalDocumentation(enhanced_results,
                                                     project, now)])
    /\ UNCHANGED <<project, agent, orchVars, qualityVars, jobVars>>

NextAssemble == Tick \/ AssembleCall

SpecAssemble == InitAssemble /\ [][NextAssemble]_vars

\* ------------------------------------------- the validation filter alone

\* The words of a failure phrase, as words of a text.
PhraseToks(phrase) == [i \in 1..Len(phrase) |-> W(phrase[i])]

\* A content at the thresholds of the filter: a heading of one word, then
\* lines lines that are no headings, words words that do not start with
\* '#' in all; the words of the last line are plain ones, or rules of
\* hyphens, after the words of phrase.
FilterContent(words, lines, plain, phrase) ==
    <<Ln(0, <<W("#"), W("Notes")>>), Blank>>
      \o [i \in 1..(lines - 1) |-> Ln(0, <<W("item")>>)]
      \o <<Ln(0, PhraseToks(phrase)
                   \o <<Run(IF plain THEN "body-words" ELSE "---",
                            words - lines - Len(phrase),
                            IF plain THEN words - lines - Len(phrase) ELSE 1)>>)>>

FilterContents ==
    {FilterContent(words, lines, plain, phrase) :
       words \in {MinSectionWords - 1, MinSectionWords},
       lines \in {MinSectionLines - 1, MinSectionLines},
       plain \in BOOLEAN,
       phrase \in FailurePhrases \cup {<<>>}}

\* The assembler is given the result of the first agent, and with it or
\* not a draft of the second one.
InitFilter ==
    /\ project = Snapshot("Portal", <<AppPy, GuideMd>>)
    /\ \E content \in FilterContents, accompanied \in BOOLEAN :
         enhanced_results =
           <<Result(AgentNames[1], content, 0)>>
             \o (IF accompanied
                 THEN <<Result(AgentNames[2], GoodDraft(AgentNames[2]), 0)>>
                 ELSE <<>>)
    /\ svcClient = TRUE /\ pc = "assemble" /\ client = TRUE
    /\ shared_context = <<>> /\ agent_results = <<>> /\ total_tokens = 0
    /\ final_documentation = None /\ result = None /\ now = 0
    /\ start_time = 0 /\ fault = "none"
    /\ AgentsIdle /\ QualityIdle /\ runs = <<>> /\ JobIdle

NextFilter == AssembleCall

SpecFilter == InitFilter /\ [][NextFilter]_vars

\* ------------------------------------- the assembler on a mapping in any order

\* Two agents that section_order does not name; the title of the second
\* one, 'Overview', has the base the title 'Documentation Overview' has.
OtherAgents == <<"Glossary Agent", "Overview Agent">>

\* The agents of the mapping: two of section_order, given out of its order,
\* and the two others.
MixedAgents == <<AgentNames[5], AgentNames[4]>> \o OtherAgents

\* What an entry of the mapping can hold: the agent's own draft, a draft
\* the agents share, or the mark of a failed task.
MixedOutputs(a) == <<GoodDraft(a), BoilerplateDraft, FailurePlaceholder(a)>>

\* The ways to put the entries of the mapping in a row.
Orderings ==
    {f \in [1..Len(MixedAgents) -> 1..Len(MixedAgents)] :
       \A i, j \in 1..Len(MixedAgents) : i # j => f[i] # f[j]}

\* The assembler is given a mapping of the four agents, in any order of
\* insertion.
InitOrder ==
    /\ project = Snapshot("Portal", <<AppPy, GuideMd>>)
    /\ \E f \in Orderings :
       \E choice \in [1..Len(MixedAgents) -> 1..Len(MixedOutputs(AgentNames[1]))] :
         enhanced_results =
           EnhanceCrossReferences(
             [i \in 1..Len(MixedAgents) |->
                Result(MixedAgents[f[i]],
                       MixedOutputs(MixedAgents[f[i]])[choice[i]], 0)],
             project)
    /\ svcClient = TRUE /\ pc = "assemble" /\ client = TRUE
    /\ shared_context = <<>> /\ agent_results = <<>> /\ total_tokens = 0
    /\ final_documentation = None /\ result = None /\ now = 0
    /\ start_time = 0 /\ fault = "none"
    /\ AgentsIdle /\ QualityIdle /\ runs = <<>> /\ JobIdle

NextOrder == AssembleCall

SpecOrder == InitOrder /\ [][NextOrder]_vars

\* ------------------------------------------------ claims on the assembler

IsAgentSection(tab) == "section_number" \in DOMAIN tab
AgentSections(tabs) == SelectSeq(tabs, IsAgentSection)

\* A text without the line that tells when it was generated.
IsGeneratedLine(line) == FirstTok(line) = "**Generated**:"
Undated(txt) == SelectSeq(txt, LAMBDA line : ~IsGeneratedLine(line))
UndatedTabs(tabs) ==
    [i \in 1..Len(tabs) |-> [tabs[i] EXCEPT !.content = Undated(@)]]

\* C8 as stated: two invocations of the assembler on the same results and
\* snapshot, at any two points in time, return the same full text and the
\* same tabs.
C8_AssemblyIsDeterministic ==
    \A i, j \in 1..Len(runs) : runs[i].out = runs[j].out

\* C8 amended: two invocations on the same results and snapshot return the
\* same tab titles, agents, section numbers and word counts, and texts that
\* differ at most in the line "**Generated**: <date time>" of the table of
\* contents (in the full text and in the overview tab); they are the same
\* byte for byte when the clock shows the same second at both, and always
\* when the output is the fallback page.
C8_AssemblyDeterministicButForDate ==
    \A i, j \in 1..Len(runs) :
        /\ Undated(runs[i].out.content) = Undated(runs[j].out.content)
        /\ UndatedTabs(runs[i].out.tabs) = UndatedTabs(runs[j].out.tabs)
        /\ AgentSections(runs[i].out.tabs) = AgentSections(runs[j].out.tabs)
        /\ (runs[i].at \div 1000 = runs[j].at \div 1000) =>
               runs[i].out = runs[j].out
        /\ runs[i].out.tabs[1].agent = "Fallback" => runs[i].out = runs[j].out

\* C8 witness: the assembler ran twice, a second apart, on results of which
\* two became sections.
C8_Witness ==
    /\ Len(runs) = 2
    /\ runs[1].at \div 1000 # runs[2].at \div 1000
    /\ Len(AgentSections(runs[1].out.tabs)) >= 2

\* |A n B| / max(|A|, |B|) > 0.65 for the vocabularies A and B of x and y.
VocabOverlapAbove65(x, y) ==
    LET xs == Vocabulary(x)
        ys == Vocabulary(y)
    IN  SumCommon(xs, ys, DOMAIN xs \cap DOMAIN ys) * 100
          > 65 * Max2(SumCounts(xs, DOMAIN xs), SumCounts(ys, DOMAIN ys))

\* The candidate of agent a: its stripped content, if it passed validation.
IsCandidate(results, a) ==
    a \in NamesOf(results) /\ IsValidContent(ResultOf(results, a).content)
Candidate(results, a) == Strip(ResultOf(results, a).content)

\* C9: in the assembler's output any two agent sections differ in their
\* fingerprints and share at most 65% of the larger vocabulary.  A
\* candidate that equals an accepted section, in words or in fingerprint,
\* or shares more than 65% (so 70%) of the vocabulary with it, can thus not
\* be a section beside it, whatever its title.
C9_NoDuplicateSections ==
    Len(runs) > 0 =>
        LET secs == AgentSections(runs[Len(runs)].out.tabs)
            prints == [i \in 1..Len(secs) |-> Fingerprint(secs[i].content)]
        IN  \A i, j \in 1..Len(secs) :
                i < j =>
                  /\ secs[i].agent # secs[j].agent
                  /\ secs[i].content # secs[j].content
                  /\ prints[i] # prints[j]
                  /\ ~VocabOverlapAbove65(secs[i].content, secs[j].content)

\* C9 witness: of three valid candidates one was refused for its
\* fingerprint alone, one for its likeness alone, and one was accepted.
C9_Witness ==
    \E r \in 1..Len(runs) :
        LET secs == AgentSections(runs[r].out.tabs)
        IN  /\ Len(secs) = 1
            /\ \E a, b \in NamesOf(enhanced_results) :
                 /\ a # b /\ a # secs[1].agent /\ b # secs[1].agent
                 /\ IsCandidate(enhanced_results, a)
                 /\ IsCandidate(enhanced_results, b)
                 /\ Fingerprint(Candidate(enhanced_results, a))
                      = Fingerprint(secs[1].content)
                 /\ ~VocabOverlapAbove65(secs[1].content,
                                         Candidate(enhanced_results, a))
                 /\ Fingerprint(Candidate(enhanced_results, b))
                      # Fingerprint(secs[1].content)
                 /\ VocabOverlapAbove65(secs[1].content,
                                        Candidate(enhanced_results, b))

\* The place of agent a in section_order.
OrderIndex(a) == CHOOSE i \in 1..Len(SectionOrder) : SectionOrder[i] = a

\* C11: in the assembler's output the section numbers of the agent
\* sections, read in the order of the tabs, are 1, 2, ..., k: no gap and no
\* repeat, also where a candidate in between was refused.
C11_DenseNumbering ==
    \A r \in 1..Len(runs) :
        LET secs == AgentSections(runs[r].out.tabs)
        IN  \A i \in 1..Len(secs) : secs[i].section_number = i

\* C11 witness: two sections numbered 1 and 2 were made of the first and
\* the third agent of the order; the second one, a valid candidate, was
\* refused as a duplicate.
C11_Witness ==
    \E r \in 1..Len(runs) :
        LET secs == AgentSections(runs[r].out.tabs)
        IN  /\ Len(secs) = 2
            /\ secs[2].section_number = 2
            /\ \E b \in NamesOf(enhanced_results) :
                 /\ OrderIndex(secs[1].agent) < OrderIndex(b)
                 /\ OrderIndex(b) < OrderIndex(secs[2].agent)
                 /\ IsCandidate(enhanced_results, b)

\* The agents whose results pass validation, and the first agent of a set
\* in section_order.
ValidAgents(results) == {a \in NamesOf(results) : IsCandidate(results, a)}
FirstInOrder(agents) ==
    CHOOSE a \in agents : \A b \in agents : OrderIndex(a) <= OrderIndex(b)

\* C20: the assembler returns the fallback section (one tab, of the agent
\* 'Fallback', the full text being the fallback text) if and only if no
\* result passes validation.  Where one passes, the first valid candidate
\* of section_order is section 1: the refusal of duplicates leaves a
\* section at least.
C20_FallbackOnlyWithoutCandidates ==
    Len(runs) > 0 =>
        LET valid == ValidAgents(enhanced_results)
            out == runs[Len(runs)].out
            secs == AgentSections(out.tabs)
        IN  /\ (\E i \in 1..Len(out.tabs) : out.tabs[i].agent = "Fallback")
                  <=> valid = {}
            /\ valid = {} =>
                  /\ Len(out.tabs) = 1
                  /\ out.tabs[1].content = CreateFallbackDocumentation(project)
                  /\ out.content = out.tabs[1].content
            /\ valid # {} =>
                  /\ secs # <<>>
                  /\ secs[1].agent = FirstInOrder(valid)
                  /\ secs[1].section_number = 1

\* C20 witness: three results passed validation, the second and the third
\* were refused as duplicates of the first, and the output is the one
\* section of the first, not the fallback.
C20_Witness ==
    /\ Len(runs) > 0
    /\ Len(runs[1].out.tabs) = 1
    /\ LET valid == ValidAgents(enhanced_results)
       IN  /\ Cardinality(valid) = 3
           /\ runs[1].out.tabs[1].agent = FirstInOrder(valid)

\* ------------------------------------------------ the orchestrated run

NumAgents == 2

\* self.agents: the agents the orchestrator deploys.
Roster == SubSeq(AgentNames, 1, NumAgents)
RosterNames == {Roster[i] : i \in 1..NumAgents}

\* The steps of generate_comprehensive_documentation inside its try.
TryPhasesUntilAssembly == {"parallel", "xref"}
TryPhases == {"parallel", "xref", "assemble", "result"}

Finished(a) == agent[a].st \in {"returned", "failed"}

\* The simulated result, returned after the sleep.
SimulatedRun ==
    /\ now' = now + SimulationTime(project)
    /\ result' = SimulateComprehensiveGeneration(project, start_time, now')
    /\ pc' = "done"

\* The snapshots an orchestrated run is given.
RunSnapshots ==
    {Snapshot("Portal", <<>>), Snapshot("Portal", <<AppPy, GuideMd>>)}

Init ==
    /\ project \in RunSnapshots
    /\ svcClient \in BOOLEAN
    /\ pc = "idle" /\ client = FALSE
    /\ shared_context = <<>> /\ agent_results = <<>> /\ total_tokens = 0
    /\ enhanced_results = <<>> /\ final_documentation = None
    /\ result = None /\ now = 0 /\ start_time = 0 /\ fault = "none"
    /\ AgentsIdle /\ QualityIdle /\ runs = <<>> /\ JobIdle

\* MultiAgentService.generate_documentation constructs the orchestrator:
\* self.client = openai_client or get_llm_client(), where get_llm_client
\* returns a client (made) or raises.
Construct ==
    /\ pc = "idle"
    /\ \E made \in BOOLEAN :
         IF svcClient \/ made
         THEN /\ client' = TRUE
              /\ agent' = [a \in AllAgents |-> NewAgent(TRUE)]
              /\ pc' = "constructed"
         ELSE /\ pc' = "raised"
              /\ UNCHANGED <<client, agent>>
    /\ UNCHANGED <<project, svcClient, shared_context, agent_results,
                   total_tokens, enhanced_results, final_documentation,
                   result, now, start_time, fault, qualityVars, runs, jobVars>>

\* generate_comprehensive_documentation up to the submission of the tasks.
GenerateStart ==
    /\ pc = "constructed"
    /\ start_time' = now
    /\ IF ~client
       THEN /\ now' = now + SimulationTime(project)
            /\ result' = SimulateComprehensiveGeneration(project, now, now')
            /\ pc' = "done"
            /\ UNCHANGED agent
       ELSE /\ agent' = [a \in AllAgents |->
                           IF a \in RosterNames
                           THEN [agent[a] EXCEPT !.st = "called"]
                           ELSE agent[a]]
            /\ pc' = "parallel"
            /\ UNCHANGED <<now, result>>
    /\ UNCHANGED <<project, svcClient, client, shared_context, agent_results,
                   total_tokens, enhanced_results, final_documentation,
                   fault, qualityVars, runs, jobVars>>

\* The task of agent a raises instead of returning: its except clause
\* raises in turn.
TaskFault(a) ==
    /\ agent[a].st = "waiting"
    /\ pc # "idle"
    /\ agent' = [agent EXCEPT ![a] =
         [@ EXCEPT !.st = "failed", !.content = FailurePlaceholder(a),
                   !.tokens = 0]]
    /\ UNCHANGED <<project, orchVars, qualityVars, runs, jobVars>>

\* _run_agents_parallel, were it to let the error of a task through: the
\* executor is left and the error reaches the except clause of the run.
CollectRaising(a) ==
    /\ pc = "parallel" /\ a \in RosterNames
    /\ Finished(a) /\ a \notin NamesOf(agent_results)
    /\ IF agent[a].st = "failed"
       THEN /\ pc' = "except"
            /\ UNCHANGED <<agent_results, total_tokens>>
       ELSE /\ agent_results' =
                 Append(agent_results,
                        Result(a, agent[a].content, agent[a].tokens))
            /\ total_tokens' = total_tokens + agent[a].tokens
            /\ pc' = pc
    /\ UNCHANGED <<project, svcClient, client, shared_context, agent,
                   enhanced_results, final_documentation, result, now,
                   start_time, fault, qualityVars, runs, jobVars>>

\* _run_agents_parallel, were it to enter what a task returned into the
\* shared context for the agents still to begin.
CollectSharing(a) ==
    /\ pc = "parallel" /\ a \in RosterNames
    /\ Finished(a) /\ a \notin NamesOf(agent_results)
    /\ IF agent[a].st = "failed"
       THEN /\ agent_results' =
                 Append(agent_results, Result(a, FailurePlaceholder(a), 0))
            /\ total_tokens' = total_tokens
            /\ shared_context' = shared_context
       ELSE /\ agent_results' =
                 Append(agent_results,
                        Result(a, agent[a].content, agent[a].tokens))
            /\ total_tokens' = total_tokens + agent[a].tokens
            /\ shared_context' =
                 Append(shared_context,
                        [name |-> a, insights |-> agent[a].content])
    /\ UNCHANGED <<project, svcClient, pc, client, agent,
                   enhanced_results, final_documentation, result, now,
                   start_time, fault, qualityVars, runs, jobVars>>

\* _run_agents_parallel takes the outcome of a completed task: what the
\* task returned, or the placeholder and no tokens where it raised.
Collect(a) ==
    /\ pc = "parallel" /\ a \in RosterNames
    /\ Finished(a) /\ a \notin NamesOf(agent_results)
    /\ IF agent[a].st = "failed"
       THEN /\ agent_results' =
                 Append(agent_results, Result(a, FailurePlaceholder(a), 0))
            /\ total_tokens' = total_tokens
       ELSE /\ agent_results' =
                 Append(agent_results,
                        Result(a, agent[a].content, agent[a].tokens))
            /\ total_tokens' = total_tokens + agent[a].tokens
    /\ UNCHANGED <<project, svcClient, pc, client, shared_context, agent,
                   enhanced_results, final_documentation, result, now,
                   start_time, fault, qualityVars, runs, jobVars>>

\* The check of the results, were it made as soon as one task is
\* collected: the tasks still running are left behind.
ParallelDoneEarly ==
    /\ pc = "parallel" /\ agent_results # <<>>
    /\ IF \A i \in 1..Len(agent_results) :
            Strip(agent_results[i].content) = EmptyText
       THEN SimulatedRun
       ELSE pc' = "xref" /\ UNCHANGED <<now, result>>
    /\ UNCHANGED <<project, svcClient, client, shared_context, agent,
                   agent_results, total_tokens, enhanced_results,
                   final_documentation, start_time, fault, qualityVars, runs, jobVars>>

\* All tasks are collected: the check of the results.
ParallelDone ==
    /\ pc = "parallel" /\ NamesOf(agent_results) = RosterNames
    /\ IF \A i \in 1..Len(agent_results) :
            Strip(agent_results[i].content) = EmptyText
       THEN SimulatedRun
       ELSE pc' = "xref" /\ UNCHANGED <<now, result>>
    /\ UNCHANGED <<project, svcClient, client, shared_context, agent,
                   agent_results, total_tokens, enhanced_results,
                   final_documentation, start_time, fault, qualityVars, runs, jobVars>>

\* Phase 2.
Enhance ==
    /\ pc = "xref"
    /\ enhanced_results' = EnhanceCrossReferences(agent_results, project)
    /\ pc' = "assemble"
    /\ UNCHANGED <<project, svcClient, client, shared_context, agent,
                   agent_results, total_tokens, final_documentation, result,
                   now, start_time, fault, qualityVars, runs, jobVars>>

\* Phase 3, and the validation of its output.
Assemble ==
    /\ pc = "assemble"
    /\ LET doc == AssembleFinalDocumentation(enhanced_results, project, now)
           fallback_content == CreateFallbackDocumentation(project)
       IN  final_documentation' =
             IF doc.tabs = <<>>
             THEN Documentation(fallback_content,
                    <<Tab(<<"Project", "Documentation">>, fallback_content,
                          WordCount(fallback_content), "Fallback")>>)
             ELSE doc
    /\ pc' = "result"
    /\ UNCHANGED <<project, svcClient, client, shared_context, agent,
                   agent_results, total_tokens, enhanced_results, result,
                   now, start_time, fault, qualityVars, runs, jobVars>>

\* The result of the real path is returned.
ReturnResult ==
    /\ pc = "result"
    /\ result' = GenerationResult(final_documentation.content,
                                  final_documentation.tabs,
                                  "gpt-4-turbo-multi-agent", total_tokens,
                                  now - start_time, now,
                                  "multi-agent-parallel", NumAgents)
    /\ pc' = "done"
    /\ UNCHANGED <<project, svcClient, client, shared_context, agent,
                   agent_results, total_tokens, enhanced_results,
                   final_documentation, now, start_time, fault,
                   qualityVars, runs, jobVars>>

\* An error is raised in the current step of the run.
RunFault ==
    /\ pc \in {"parallel", "xref", "assemble", "result"}
    /\ fault = "none"
    /\ fault' = pc
    /\ pc' = IF pc \in TryPhases THEN "except" ELSE "raised"
    /\ UNCHANGED <<project, svcClient, client, shared_context, agent,
                   agent_results, total_tokens, enhanced_results,
                   final_documentation, result, now, start_time,
                   qualityVars, runs, jobVars>>

\* The except clause, entered once the executor has shut down.
ExceptHandler ==
    /\ pc = "except"
    /\ \A a \in RosterNames : Finished(a)
    /\ SimulatedRun
    /\ UNCHANGED <<project, svcClient, client, shared_context, agent,
                   agent_results, total_tokens, enhanced_results,
                   final_documentation, start_time, fault, qualityVars, runs, jobVars>>

Next ==
    \/ Construct
    \/ GenerateStart
    \/ \E a \in RosterNames :
         \/ AnalyzeBegin(a)
         \/ \E r \in RunReplies(a) : BackendReply(a, r)
         \/ BackendRaise(a)
         \/ TaskFault(a)
         \/ Collect(a)
    \/ ParallelDone
    \/ Enhance
    \/ Assemble
    \/ ReturnResult
    \/ RunFault
    \/ ExceptHandler

Spec == Init /\ [][Next]_vars

\* ------------------------------------------- a run and the usage it reports

\* The replies the backend gives an agent of a run whose usage is followed:
\* a draft too short for the gate and a draft that passes it, each with
\* the usage of its call.
UsageReplies(a) == {Reply(ShortDraft(a), 40), Reply(GoodDraft(a), 900)}

\* The service holds a client; the snapshot is of one source file.
InitUsage ==
    /\ project = Snapshot("Portal", <<AppPy>>)
    /\ svcClient = TRUE
    /\ pc = "idle" /\ client = FALSE
    /\ shared_context = <<>> /\ agent_results = <<>> /\ total_tokens = 0
    /\ enhanced_results = <<>> /\ final_documentation = None
    /\ result = None /\ now = 0 /\ start_time = 0 /\ fault = "none"
    /\ AgentsIdle /\ QualityIdle /\ runs = <<>> /\ JobIdle

\* A run whose tasks return: the backend answers a call or raises.
NextUsage ==
    \/ Construct
    \/ GenerateStart
    \/ \E a \in RosterNames :
         \/ AnalyzeBegin(a)
         \/ \E r \in UsageReplies(a) : BackendReply(a, r)
         \/ BackendRaise(a)
         \/ Collect(a)
    \/ ParallelDone
    \/ Enhance
    \/ Assemble
    \/ ReturnResult

SpecUsage == InitUsage /\ [][NextUsage]_vars

\* ------------------------------------------------- a run that is let to end

\* The replies the backend gives an agent of a run that is let to end: a
\* draft too short for the gate, so that an agent goes on to its last
\* attempt.
LiveReplies(a) == {Reply(ShortDraft(a), 40)}

\* A step of the task of agent a: the task begins, or its backend call
\* returns or raises, or the task itself raises.
TaskStep(a) ==
    \/ AnalyzeBegin(a)
    \/ \E r \in LiveReplies(a) : BackendReply(a, r)
    \/ BackendRaise(a)
    \/ TaskFault(a)

\* A step of the thread that runs generate_comprehensive_documentation.
RunStep ==
    \/ Construct
    \/ GenerateStart
    \/ \E a \in RosterNames : Collect(a)
    \/ ParallelDone
    \/ Enhance
    \/ Assemble
    \/ ReturnResult

NextLive ==
    \/ \E a \in RosterNames : TaskStep(a)
    \/ RunStep

\* The conditions under which the task of agent a, and the calling thread,
\* can take a step: the guards of the actions of TaskStep and RunStep.  A
\* task is between its start and its return; the calling thread is not
\* blocked in as_completed or in the shutdown of the executor.
TaskCanStep(a) == agent[a].st \in {"called", "waiting"}
RunCanStep ==
    \/ pc \in {"idle", "constructed", "xref", "assemble", "result"}
    \/ /\ pc = "parallel"
       /\ \/ \E a \in RosterNames :
               Finished(a) /\ a \notin NamesOf(agent_results)
          \/ NamesOf(agent_results) = RosterNames

\* A step of the task of agent a changes the record of the agent while the
\* task is on; a step of the calling thread changes pc or collects a
\* result.
TaskMoved(a) == TaskCanStep(a) /\ agent'[a] # agent[a]
RunMoved == pc' # pc \/ agent_results' # agent_results

\* Every backend call returns or raises in the end, every thread of the
\* pool gets to run, and so does the calling thread: weak fairness of
\* TaskStep(a) and of RunStep, written with their guards, next to the weak
\* fairness of the constructor.
Fairness ==
    /\ WF_vars(Construct)
    /\ \A a \in RosterNames :
          []<>(~TaskCanStep(a)) \/ []<><<TaskMoved(a)>>_vars
    /\ []<>(~RunCanStep) \/ []<><<RunMoved>>_vars

SpecLive == InitUsage /\ [][NextLive]_vars /\ Fairness

\* ------------------------------------------------------ the generation job

\* A column of the row: NULL, or a value.
Null == [null |-> TRUE]
Value(v) == [null |-> FALSE, v |-> v]

\* The row Project.create_project inserts.
NewProjectRow ==
    [status |-> "processing", progress |-> 0, status_message |-> Null,
     documentation |-> Null, generation_metadata |-> Null,
     error_message |-> Null]

\* Project.update_progress: the UPDATE it runs on the row.
UpdateProgress(row, progress, status_message) ==
    [row EXCEPT !.progress = progress,
                !.status_message = Value(status_message)]

\* Project.mark_completed, with no diagrams.
MarkCompleted(row, documentation, metadata) ==
    [row EXCEPT !.status = "completed",
                !.documentation = Value(documentation),
                !.progress = 100,
                !.status_message = Value("Documentation generated successfully"),
                !.error_message = Null,
                !.generation_metadata = Value(metadata)]

\* Project.mark_error
MarkError(row, error_message) ==
    [row EXCEPT !.status = "error",
                !.error_message = Value(error_message),
                !.progress = 0,
                !.status_message = Value("Documentation generation failed")]

\* The row of a project whose documentation was generated before.
EarlierText == <<Ln(0, <<W("#"), W("Earlier"), W("Documentation")>>)>>
EarlierResult ==
    GenerationResult(EarlierText,
                     <<Tab(<<"Project", "Overview">>, EarlierText, 3, "Fallback")>>,
                     "gpt-4-turbo-multi-agent", 0, 0, 0,
                     "multi-agent-parallel", Len(AgentNames))
CompletedRow == MarkCompleted(NewProjectRow, EarlierText, EarlierResult)

\* The steps of _generate_documentation_sync: the progress written at
\* each, and the step that follows.
ProgressSteps ==
    [started |-> [progress |-> 10, next |-> "p10",
                  status_message |-> "Initializing multi-agent documentation system..."],
     p10 |-> [progress |-> 25, next |-> "p25",
              status_message |-> "Analyzing uploaded files..."],
     p25 |-> [progress |-> 50, next |-> "generating",
              status_message |-> "Deploying specialized AI agents..."],
     generating |-> [progress |-> 75, next |-> "p75",
                     status_message |-> "Finalizing documentation..."],
     p75 |-> [progress |-> 90, next |-> "p90",
              status_message |-> "Saving comprehensive documentation..."]]

\* The job is started on a project just created, or on one that has
\* documentation (regenerate).
InitJob ==
    /\ project = Snapshot("Portal", <<AppPy, GuideMd>>)
    /\ svcClient = FALSE
    /\ pc = "idle" /\ client = FALSE
    /\ shared_context = <<>> /\ agent_results = <<>> /\ total_tokens = 0
    /\ enhanced_results = <<>> /\ final_documentation = None
    /\ result = None /\ now = 0 /\ start_time = 0 /\ fault = "none"
    /\ AgentsIdle /\ QualityIdle /\ runs = <<>>
    /\ store \in {NewProjectRow, CompletedRow}
    /\ job = "started"

\* One call of project.update_progress in _generate_documentation_sync;
\* the fourth one follows the return of the generation call.
JobProgress ==
    /\ job \in DOMAIN ProgressSteps
    /\ job = "generating" => pc = "done"
    /\ store' = UpdateProgress(store, ProgressSteps[job].progress,
                               ProgressSteps[job].status_message)
    /\ job' = ProgressSteps[job].next
    /\ UNCHANGED <<project, agent, orchVars, qualityVars, runs>>

\* multi_agent_service.generate_documentation is called: the orchestrator
\* is constructed.
JobGenerate ==
    /\ job = "generating"
    /\ Construct

\* mark_completed, were it given the first section in place of the full
\* text.
JobMarkCompletedFirstTab ==
    /\ job = "p90"
    /\ store' = MarkCompleted(store, result.tabs[1].content, result)
    /\ job' = "completed"
    /\ UNCHANGED <<project, agent, orchVars, qualityVars, runs>>

\* project.mark_completed(documentation=result['content'], metadata=result)
JobMarkCompleted ==
    /\ job = "p90"
    /\ store' = MarkCompleted(store, result.content, result)
    /\ job' = "completed"
    /\ UNCHANGED <<project, agent, orchVars, qualityVars, runs>>

\* The call raised: generate_docs_async marks the project.
JobMarkError ==
    /\ job = "generating" /\ pc = "raised"
    /\ store' = MarkError(store, "System error")
    /\ job' = "error"
    /\ UNCHANGED <<project, agent, orchVars, qualityVars, runs>>

NextJob ==
    \/ JobProgress
    \/ JobGenerate
    \/ GenerateStart
    \/ \E a \in RosterNames :
         \/ AnalyzeBegin(a)
         \/ \E r \in RunReplies(a) : BackendReply(a, r)
         \/ BackendRaise(a)
         \/ TaskFault(a)
         \/ Collect(a)
    \/ ParallelDone
    \/ Enhance
    \/ Assemble
    \/ ReturnResult
    \/ RunFault
    \/ ExceptHandler
    \/ JobMarkCompleted
    \/ JobMarkError

SpecJob == InitJob /\ [][NextJob]_vars

\* ------------------------------------------------------ claims on the run

HasResult == pc = "done" /\ result # None
IsSimulated(r) == r.method = "multi-agent-simulation"
IsParallel(r) == r.method = "multi-agent-parallel"

\* C1: whatever the agents did, the result of a generation call has at
\* least one tab and a full text that is not empty (tokens, time and the
\* number of sections are stated with it).
C1_ResultIsNeverEmpty ==
    HasResult =>
        /\ Len(result.tabs) >= 1
        /\ NonEmpty(result.content)
        /\ \A i \in 1..Len(result.tabs) : NonEmpty(result.tabs[i].content)
        /\ result.sections_generated = Len(result.tabs)

\* C1 witness: every task of the roster raised, and the call returned the
\* fallback page as its one tab.
C1_Witness ==
    /\ HasResult /\ IsParallel(result)
    /\ \A a \in RosterNames : agent[a].st = "failed"
    /\ Len(result.tabs) = 1 /\ result.tabs[1].agent = "Fallback"

\* C2 as stated: without a configured backend client no agent runs and no
\* backend call is made; the call returns the simulated result.
C2_NoClientMeansSimulation ==
    ~svcClient =>
        /\ \A a \in AllAgents : agent[a].st = "idle" /\ agent[a].calls = 0
        /\ HasResult => IsSimulated(result)

\* C3: an error raised in any step of the real path is caught, and the
\* call returns the simulated result, which is not empty.
C3_FaultEndsInSimulation ==
    fault # "none" =>
        /\ pc \in {"except", "done"}
        /\ pc = "done" =>
             /\ result # None /\ IsSimulated(result)
             /\ Len(result.tabs) = Len(SimulatedSections) + 1
             /\ NonEmpty(result.content)

\* C3 witness: the error was raised in the assembly, and the call returned.
C3_Witness == fault = "assemble" /\ HasResult /\ IsSimulated(result)

\* Two sections are duplicates: same fingerprint, or vocabularies that
\* overlap by more than 65%.
Duplicates(x, y) ==
    \/ Fingerprint(x.content) = Fingerprint(y.content)
    \/ VocabOverlapAbove65(x.content, y.content)

\* C10 as stated: no two sections of a returned result are duplicates.
C10_ResultHasNoDuplicates ==
    HasResult =>
        \A i, j \in 1..Len(result.tabs) :
            i < j => ~Duplicates(result.tabs[i], result.tabs[j])

\* C10 amended: no two agent sections (the tabs with a section number) of
\* a result of the real path are duplicates; a result that is not of the
\* real path is the simulated one, which is returned as it was written.
C10_RealPathHasNoDuplicates ==
    HasResult =>
        IF IsParallel(result)
        THEN LET secs == AgentSections(result.tabs)
             IN  \A i, j \in 1..Len(secs) :
                     i < j => ~Duplicates(secs[i], secs[j])
        ELSE /\ IsSimulated(result)
             /\ AgentSections(result.tabs) = <<>>

\* C10 witness: the backend raised for two agents, both returned the
\* template analysis, and the result of the real path has one section of
\* the two candidates.
C10_Witness ==
    /\ HasResult /\ IsParallel(result)
    /\ \E a, b \in RosterNames :
         /\ a # b
         /\ agent[a].raisedAt = 1 /\ agent[b].raisedAt = 1
         /\ IsCandidate(enhanced_results, a)
         /\ IsCandidate(enhanced_results, b)
         /\ Duplicates(ResultOf(enhanced_results, a),
                       ResultOf(enhanced_results, b))
    /\ Len(AgentSections(result.tabs)) = 1

\* The fields of a section record, as the result's sections are described.
SectionFields == {"title", "content", "word_count", "agent", "section_number"}

\* C12 as stated: every section record of a returned result carries the
\* five fields title, content, word_count, agent and section_number.
C12_EveryRecordHasFiveFields ==
    HasResult =>
        \A i \in 1..Len(result.tabs) : DOMAIN result.tabs[i] = SectionFields

TokensOf(results) == SumSeq([i \in 1..Len(results) |-> results[i].tokens])

\* C14: the collected results hold one entry at most per agent of the
\* roster, and one each once the parallel phase is over, in whatever order
\* the tasks completed.  The entry of a task that raised is the failure
\* placeholder with no tokens; the entry of any other agent is the content
\* and the tokens it returned.  The failure of a task does not end the run:
\* the except clause is entered, and the simulated result returned, for an
\* error of the run only.
C14_OneEntryPerAgent ==
    /\ Len(agent_results) = Cardinality(NamesOf(agent_results))
    /\ NamesOf(agent_results) \subseteq RosterNames
    /\ \A i \in 1..Len(agent_results) :
          LET e == agent_results[i]
          IN  /\ Finished(e.name)
              /\ IF agent[e.name].st = "failed"
                 THEN e.content = FailurePlaceholder(e.name) /\ e.tokens = 0
                 ELSE /\ e.content = agent[e.name].content
                      /\ e.tokens = agent[e.name].tokens
    /\ total_tokens = TokensOf(agent_results)
    /\ (pc \in {"xref", "assemble", "result"} \/ (HasResult /\ IsParallel(result)))
          => NamesOf(agent_results) = RosterNames
    /\ pc = "except" => fault # "none"
    /\ (HasResult /\ IsSimulated(result)) => fault # "none"

\* C14 witness: the task of the second agent of the roster raised and was
\* collected first; the first agent returned a draft with its tokens and
\* was collected after it, and the run went on to the cross references.
C14_Witness ==
    /\ pc = "xref" /\ fault = "none"
    /\ Len(agent_results) = NumAgents
    /\ agent_results[1].name = Roster[2]
    /\ agent[Roster[2]].st = "failed"
    /\ agent_results[1].tokens = 0
    /\ \E i \in 2..Len(agent_results) :
         /\ agent_results[i].name = Roster[1]
         /\ agent[Roster[1]].st = "returned"
         /\ agent_results[i].tokens > 0

\* The collected results in the order of the roster.
InRosterOrder(results) ==
    [i \in 1..NumAgents |-> ResultOf(results, Roster[i])]

\* C15: the result of the real path is the one made of the agents'
\* outputs taken in the order of the roster, whatever the order the tasks
\* completed in: same full text, same sections with the same titles and
\* section numbers, same number of tokens.
C15_CompletionOrderIsImmaterial ==
    (HasResult /\ IsParallel(result)) =>
        LET canon == InRosterOrder(agent_results)
            doc == AssembleFinalDocumentation(
                     EnhanceCrossReferences(canon, project), project,
                     result.generated_at)
        IN  /\ result.tabs = doc.tabs
            /\ result.content = doc.content
            /\ result.tokens_used = TokensOf(canon)

\* C15 witness: the tasks completed in another order than the roster's,
\* and the result has a section of each of two agents.
C15_Witness ==
    /\ HasResult /\ IsParallel(result)
    /\ agent_results # InRosterOrder(agent_results)
    /\ Len(AgentSections(result.tabs)) = 2
    /\ result.tokens_used > 0

\* The section of the simulated result that stands for agent a: its title
\* starts with the two words the agent's name starts with.
IsSectionOfRole(tab, a) ==
    /\ Len(tab.title) = 3
    /\ tab.title[1] = NameWords(a)[1].t
    /\ tab.title[2] = NameWords(a)[2].t

\* The backend calls made so far, agent by agent.
BackendCalls == [a \in AllAgents |-> agent[a].calls]

\* C16: the step that returns a result either returns the result of the
\* real path, tagged 'multi-agent-parallel', or the simulated one, tagged
\* 'multi-agent-simulation'.  The simulated result has nine sections: the
\* 'Documentation Overview' and then one for each of the eight agents in
\* the order of section_order; no backend call is made to produce it.
C16_SimulatedResultShape ==
    [][(result = None /\ result' # None) =>
         IF pc = "result"
         THEN /\ IsParallel(result') /\ ~IsSimulated(result')
              /\ result'.tabs = final_documentation.tabs
         ELSE /\ IsSimulated(result') /\ ~IsParallel(result')
              /\ Len(result'.tabs) = Len(AgentNames) + 1
              /\ result'.sections_generated = Len(AgentNames) + 1
              /\ result'.tabs[1].title = <<"Documentation", "Overview">>
              /\ \A i \in 1..Len(AgentNames) :
                    IsSectionOfRole(result'.tabs[i + 1], SectionOrder[i])
              /\ BackendCalls' = BackendCalls]_vars

\* C16 witness: the cross references raised after the agents had called
\* the backend, and the run returned the simulated result of nine
\* sections.
C16_Witness ==
    /\ HasResult /\ IsSimulated(result) /\ fault = "xref"
    /\ Len(result.tabs) = 9
    /\ \E a \in RosterNames : agent[a].calls > 0

\* No task of the roster is running.
NoAgentRunning == \A a \in RosterNames : agent[a].st \notin {"called", "waiting"}

\* C17: a step of the job that writes the documentation, the metadata or
\* the status 'completed' with the progress 100 is taken after the
\* generation call has returned its result and with no task running, and
\* what it writes is the content of that result, the result as metadata
\* and the status 'completed'.
C17_TerminalWriteAfterRun ==
    [][(\/ store'.documentation # store.documentation
        \/ store'.generation_metadata # store.generation_metadata
        \/ (store'.progress = 100 /\ store' # store))
       => /\ pc = "done" /\ result # None
          /\ NoAgentRunning
          /\ store'.documentation = Value(result.content)
          /\ store'.generation_metadata = Value(result)
          /\ store'.status = "completed"]_vars

\* C17 witness: the agents called the backend, the call returned the
\* result of the real path, and the job has written its content over
\* whatever documentation the project had.
C17_Witness ==
    /\ job = "completed" /\ HasResult /\ IsParallel(result)
    /\ store.documentation = Value(result.content)
    /\ store.documentation # CompletedRow.documentation
    /\ store.status = "completed"
    /\ \E a \in RosterNames : agent[a].calls > 0

\* The table of contents of an assembled text lists agent a.
ListedInToc(out, a) ==
    \E i \in 1..Len(out.content) : \E n \in 1..Len(SectionOrder) :
        out.content[i].toks
          = <<W(NumStr(n) \o ".")>> \o TitleToks(AnalysisTitle(a))

\* The four tests of the filter, on a stripped content.
HasEnoughWords(c) == NonHeadingWords(c) >= 100
HasEnoughLines(c) == NonHeadingLines(c) >= 5
HasEnoughChars(c) == FlatLen(c) >= 100

\* C19: the assembler keeps the result of an agent as a candidate (it is
\* counted and listed in the table of contents) exactly when its stripped
\* content has 100 words at least that do not start with '#', 5 lines at
\* least that are neither blank nor headings, 100 characters at least
\* besides '#', blanks, '-', '*' and backquotes, and no failure phrase; a
\* result that fails one of the tests is no section of the output.
C19_FilterKeepsExactly ==
    \A r \in 1..Len(runs) : \A a \in NamesOf(enhanced_results) :
        LET c == Strip(ResultOf(enhanced_results, a).content)
            passes == /\ HasEnoughWords(c) /\ HasEnoughLines(c)
                      /\ HasEnoughChars(c) /\ ~HasFailurePhrase(c)
            out == runs[r].out
        IN  /\ ListedInToc(out, a) <=> passes
            /\ ~passes => \A i \in 1..Len(out.tabs) : out.tabs[i].agent # a

\* C19 witness: the content of the first agent has 100 words, 100
\* characters and no failure phrase but 4 lines only; it is not listed and
\* no section, while the second agent's draft is.
C19_Witness ==
    /\ Len(runs) > 0 /\ Len(enhanced_results) = 2
    /\ LET c == Strip(enhanced_results[1].content)
           out == runs[1].out
       IN  /\ HasEnoughWords(c) /\ HasEnoughChars(c) /\ ~HasFailurePhrase(c)
           /\ NonHeadingLines(c) = 4
           /\ ~ListedInToc(out, enhanced_results[1].name)
           /\ ListedInToc(out, enhanced_results[2].name)
           /\ Len(out.tabs) = 1 /\ out.tabs[1].agent = enhanced_results[2].name

\* The place of agent a in the mapping given to the assembler.
EncounterIndex(results, a) ==
    CHOOSE i \in 1..Len(results) : results[i].name = a

\* The rank the ordering rule gives agent a: its place in section_order or,
\* after all of these, its place in the mapping.
OrderRank(results, a) ==
    IF a \in AllAgents THEN OrderIndex(a)
    ELSE Len(SectionOrder) + EncounterIndex(results, a)

\* The numbered headings of an assembled text, in the order of the text.
SectionHeadings(content) ==
    SelectSeq(content,
              LAMBDA line : /\ Len(line.toks) >= 2 /\ line.ind = 0
                            /\ line.toks[1] = W("#")
                            /\ \E n \in 1..Len(MixedAgents) :
                                 line.toks[2] = W(NumStr(n) \o "."))

\* C21: in the assembler's output the accepted agent sections stand in
\* the order of section_order whatever the order of the mapping, and the
\* sections of agents that section_order does not name come after all of
\* these, in the order they are met in the mapping; the numbered headings
\* of the full text follow the same order.
C21_CanonicalThenEncounterOrder ==
    \A r \in 1..Len(runs) :
        LET out == runs[r].out
            secs == AgentSections(out.tabs)
            heads == SectionHeadings(out.content)
        IN  /\ \A i, j \in 1..Len(secs) :
                 i < j => OrderRank(enhanced_results, secs[i].agent)
                            < OrderRank(enhanced_results, secs[j].agent)
            /\ Len(heads) = Len(secs)
            /\ \A i \in 1..Len(secs) :
                 heads[i].toks = <<W("#"), W(NumStr(i) \o ".")>>
                                   \o TitleToks(secs[i].title)

\* C21 witness: the mapping holds the agents in another order than the
\* output does: four sections were accepted, the two of section_order
\* first although an agent it does not name was met first in the mapping
\* and the two it names were met out of its order.
C21_Witness ==
    \E r \in 1..Len(runs) :
        LET secs == AgentSections(runs[r].out.tabs)
        IN  /\ Len(secs) = 4
            /\ enhanced_results[1].name = OtherAgents[2]
            /\ EncounterIndex(enhanced_results, AgentNames[5])
                 < EncounterIndex(enhanced_results, AgentNames[4])
            /\ secs[1].agent = AgentNames[4] /\ secs[2].agent = AgentNames[5]
            /\ secs[3].agent = OtherAgents[2] /\ secs[4].agent = OtherAgents[1]

\* The overview section of the table of contents.
IsOverview(tab) ==
    tab.title = <<"Documentation", "Overview">> /\ tab.agent = "Orchestrator"

\* The title the assembler gives the section of agent a.
SectionTitle(a) == IF a \in AllAgents THEN AnalysisTitle(a) ELSE PlainTitle(a)

\* An accepted section sec stands in the way of the candidate of agent a:
\* same title base, same fingerprint or similar words.
RulesOut(sec, results, a) ==
    \/ TitleBase(sec.title) = TitleBase(SectionTitle(a))
    \/ Fingerprint(sec.content) = Fingerprint(Candidate(results, a))
    \/ TooSimilar(sec.content, Candidate(results, a))

\* C22: the section list begins with the 'Documentation Overview' section
\* if and only if more than one agent section was accepted; the overview
\* holds the table of contents, stands nowhere else in the list, and plays
\* no part in the refusals: a valid candidate is refused only where an
\* agent section accepted before it has its title base, its fingerprint or
\* words similar to its own.
C22_OverviewIffSeveralSections ==
    Len(runs) > 0 =>
        LET out == runs[Len(runs)].out
            secs == AgentSections(out.tabs)
            valid == ValidAgents(enhanced_results)
        IN  /\ IsOverview(out.tabs[1]) <=> Len(secs) > 1
            /\ \A i \in 2..Len(out.tabs) : ~IsOverview(out.tabs[i])
            /\ IsOverview(out.tabs[1]) =>
                 /\ Len(out.tabs) = Len(secs) + 1
                 /\ out.tabs[1].content
                      = FullToc(ValidResults(enhanced_results), project,
                                runs[Len(runs)].at)
            /\ \A a \in valid :
                 (\A i \in 1..Len(secs) : secs[i].agent # a) =>
                     \E i \in 1..Len(secs) :
                         /\ OrderRank(enhanced_results, secs[i].agent)
                              < OrderRank(enhanced_results, a)
                         /\ RulesOut(secs[i], enhanced_results, a)

\* C22 witness: the list begins with the overview and holds the section
\* 'Overview' of an agent, whose title has the base of the overview's own,
\* while the shared draft of another candidate was refused.
C22_Witness ==
    Len(runs) > 0 /\
        LET out == runs[Len(runs)].out
            secs == AgentSections(out.tabs)
        IN  /\ IsOverview(out.tabs[1])
            /\ \E i \in 1..Len(secs) :
                 /\ secs[i].agent = OtherAgents[2]
                 /\ TitleBase(secs[i].title) = TitleBase(out.tabs[1].title)
            /\ \E a \in ValidAgents(enhanced_results) :
                 \A i \in 1..Len(secs) : secs[i].agent # a

\* The instruction a corrective request falls back on, and the critiques
\* it can name instead.
GenericInstruction == "Improve structure and specificity."
SpecificCritiques ==
    {"The previous reply was empty.",
     "Too short (must be 800-1500 words).",
     "Not enough structured subsections (need >=5).",
     "Include at least one fenced code block with concrete examples.",
     "Use bullet lists for key steps/responsibilities."}

\* The words of a text.
WordsOf(txt) ==
    UNION {{txt[i].toks[k].t : k \in 1..Len(txt[i].toks)} : i \in 1..Len(txt)}

\* C23: every corrective request of an agent (the messages of an attempt
\* after the first) hands back the draft got just before, or the marker
\* '(no content)' where that draft was empty, and names one specific
\* critique at least: a draft that failed the gate has a non-empty list of
\* critiques, and the generic instruction is never sent.
C23_CorrectiveRequestIsSpecific ==
    \A a \in AllAgents :
        agent[a].attempt > 1 =>
            LET msgs == agent[a].messages
                prev == agent[a].seen[agent[a].attempt - 1]
            IN  /\ Len(msgs) = 4
                /\ msgs[3] = Message("assistant",
                                     IF prev = EmptyText THEN NoContentMarker
                                     ELSE prev)
                /\ ~PassesQuality(prev)
                /\ Critique(prev) # <<>>
                /\ msgs[4].role = "user"
                /\ WordsOf(msgs[4].content) \cap SpecificCritiques # {}
                /\ GenericInstruction \notin WordsOf(msgs[4].content)

\* C23 witness: a third attempt is out whose request hands back a draft
\* that failed the gate for its want of lists alone, after a first reply
\* that was empty.
C23_Witness ==
    \E a \in AllAgents :
        /\ agent[a].st = "waiting" /\ agent[a].attempt = 3
        /\ agent[a].seen[1] = EmptyText
        /\ agent[a].seen[2] = Strip(ListlessDraft(a))
        /\ agent[a].messages[3].content = Strip(ListlessDraft(a))
        /\ Critique(agent[a].seen[2])
             = <<"Use bullet lists for key steps/responsibilities.">>

\* The images of the snapshot that a keyword of agent a is found in, in the
\* order of the snapshot, and the images a content holds the payload of.
MatchingImages(a, p) ==
    SelectSeq(ExtractEmbeddedImages(p.files),
              LAMBDA img : img.kws \cap AgentKeywords(a) # {})
EmbeddedImages(content, p) ==
    SelectSeq(ExtractEmbeddedImages(p.files),
              LAMBDA img : PayloadWord(img) \in WordsOf(content))

\* C24 as stated: the content an agent returns from a draft of the backend
\* holds the first (two at most) images of the snapshot, in its order,
\* that a keyword of the agent is found in: one at least whenever an image
\* of the snapshot matches, never more than two.
C24_EmbedsFirstMatchingImages ==
    \A a \in AllAgents :
        (HasReturned(a) /\ agent[a].openai_client /\ agent[a].raisedAt = 0
           /\ agent[a].best_content # EmptyText) =>
            LET matching == MatchingImages(a, project)
                embedded == EmbeddedImages(agent[a].content, project)
            IN  /\ embedded = SubSeq(matching, 1, Min2(2, Len(matching)))
                /\ matching # <<>> => embedded # <<>>
                /\ Len(embedded) <= 2

\* The usage the backend reported for the calls of agent a that completed:
\* the local total of analyze_project, kept also where a later call raised.
CompletedUsage(a) == agent[a].total_tokens_used

\* C25 as stated: the tokens_used of a result of the real path is the
\* usage reported by all the backend calls that completed during the run:
\* every agent reports, and adds to its own counter, the usage of the
\* calls it made, and the orchestrator's total is the sum of the reports.
C25_TokensAreCompletedUsage ==
    (HasResult /\ IsParallel(result)) =>
        /\ \A a \in RosterNames :
              /\ agent[a].tokens = CompletedUsage(a)
              /\ agent[a].tokens_used = CompletedUsage(a)
        /\ result.tokens_used
             = SumSeq([i \in 1..NumAgents |-> CompletedUsage(Roster[i])])

\* The numbered list of a table of contents: the lines of the head of a
\* text (up to its first rule) that begin with a number and a full stop.
IsRule(line) == line = Rule
HeadOf(txt) ==
    LET rules == {i \in 1..Len(txt) : IsRule(txt[i])}
    IN  IF rules = {} THEN txt
        ELSE SubSeq(txt, 1, (CHOOSE i \in rules : \A j \in rules : i <= j) - 1)
TocList(txt) ==
    SelectSeq(HeadOf(txt),
              LAMBDA line : /\ line.toks # <<>>
                            /\ \E n \in 1..Len(SectionOrder) :
                                 line.toks[1] = W(NumStr(n) \o "."))

\* C26 as stated: where the assembler accepted agent sections, the
\* numbered list of the table of contents (at the head of the full text,
\* and in the overview section where there is one) lists these sections
\* and no other, with their titles, in their order, under their
\* section numbers.
C26_TocListsAcceptedSections ==
    \A r \in 1..Len(runs) :
        LET out == runs[r].out
            secs == AgentSections(out.tabs)
            listed == [i \in 1..Len(secs) |->
                         <<W(NumStr(secs[i].section_number) \o ".")>>
                           \o TitleToks(secs[i].title)]
            entries(txt) == [i \in 1..Len(TocList(txt)) |-> TocList(txt)[i].toks]
        IN  secs # <<>> =>
               /\ entries(out.content) = listed
               /\ IsOverview(out.tabs[1]) =>
                      entries(out.tabs[1].content) = listed

\* The words a prompt would hold of agent b's output, were b's insights
\* shared: the heading of the shared insights, b's entry, b's own words.
SharedWords(b) ==
    {"**Shared", "Insights:**", "*" \o b \o "*:", "insights-of-" \o b \o "...",
     "draft-overview-" \o b, "draft-insight1-" \o b, "draft-insight2-" \o b,
     "draft-advice-" \o b}

\* C27: the orchestrator's shared_context is empty throughout a run, and
\* no message of an agent (its prompt in the first place) holds shared
\* insights or words of another agent's output, in whatever order the
\* tasks begin, complete and are collected.
C27_SharedContextStaysEmpty ==
    /\ shared_context = <<>>
    /\ \A a \in RosterNames : \A b \in RosterNames \ {a} :
          \A i \in 1..Len(agent[a].messages) :
              WordsOf(agent[a].messages[i].content) \cap SharedWords(b) = {}

\* C27 witness: the output of one agent has been collected, non-empty, and
\* another agent is at its first call with a prompt built of the snapshot
\* alone.
C27_Witness ==
    \E a, b \in RosterNames :
        /\ a # b /\ pc = "parallel"
        /\ b \in NamesOf(agent_results)
        /\ NonEmpty(ResultOf(agent_results, b).content)
        /\ ~Finished(a) /\ agent[a].st = "waiting" /\ agent[a].attempt = 1
        /\ agent[a].messages = FirstMessages(a, project, <<>>)

\* The backend calls the agents of the run have made.
CallsMade == SumSeq([i \in 1..NumAgents |-> agent[Roster[i]].calls])

\* C28: where every backend call returns or raises in the end, a call of
\* generate_comprehensive_documentation returns in the end; and a run that
\* has returned has no task left running, every task of the roster having
\* finished after 3 backend calls at most (3 for each agent of the roster
\* in all, at most).
C28_RunReturnsAfterAllTasks ==
    /\ (pc = "constructed") ~> (pc = "done" /\ result # None)
    /\ [](pc = "done" =>
            /\ \A a \in RosterNames : Finished(a) /\ agent[a].calls <= 3
            /\ CallsMade <= 3 * NumAgents)

\* C28 witness: a run has returned after an agent made three calls and the
\* task of another one raised.
C28_Witness ==
    /\ HasResult
    /\ \E a, b \in RosterNames :
         /\ agent[a].calls = 3 /\ agent[a].st = "returned"
         /\ agent[b].st = "failed"

\* The content agent a handed over was made from a response of the backend:
\* the task returned without an exception after a response had come.
BackendContentUsed(a) ==
    /\ agent[a].st = "returned"
    /\ agent[a].raisedAt = 0
    /\ agent[a].seen # <<>>

\* C29: the method of a result tells whether content of the backend was
\* used: a result with method 'multi-agent-parallel' has a section made
\* from a response of the backend, and a run in which every agent fell back
\* to its template or failed has method 'multi-agent-simulation'.
C29_MethodTellsBackendUse ==
    HasResult =>
        /\ IsParallel(result) =>
             \E a \in RosterNames :
                 /\ BackendContentUsed(a)
                 /\ \E i \in 1..Len(result.tabs) : result.tabs[i].agent = a
        /\ (\A a \in RosterNames : ~BackendContentUsed(a)) =>
             IsSimulated(result)

\* C30: the stored status and progress agree through a job started on a
\* project just created or on one generated before: status 'completed'
\* goes with progress 100, status 'error' with progress 0, and a progress
\* below 100 is otherwise stored with status 'processing' only.
C30_StatusMatchesProgress ==
    store # None =>
        /\ store.status = "completed" => store.progress = 100
        /\ store.status = "error" => store.progress = 0
        /\ (store.progress < 100 /\ store.status # "error") =>
               store.status = "processing"

====
